---- MODULE Spec2Model ----
(***************************************************************************)
(* Model of the Stockfish pool coordinator (createStockfishEngine) of      *)
(* smart-chessboard-logic, src/unnamed/part_001 lines 365-721, and of the  *)
(* pure computations built on it.                                          *)
(*                                                                         *)
(* The browser's main thread is one JavaScript event loop.  A worker       *)
(* message is a macrotask: its handler runs only when no promise           *)
(* continuation is ready.  The segments of an async function between two   *)
(* awaits are microtasks: each is one Resume step.  Calls of the public    *)
(* API come from user code, which may itself be a promise continuation,    *)
(* so they may happen between any two steps.                               *)
(***************************************************************************)
EXTENDS Integers, Sequences, FiniteSets, TLC

\* ------------------------------------------------------------------ bounds
MaxFens == 2          \* positions 1..MaxFens
MaxDepthSpan == 1     \* requested depths MinDepth-1 .. MinDepth+MaxDepthSpan
MaxCalls == 3         \* public API calls (analyze, stop) in one run
MaxInfos == 1         \* info lines the worker prints per search
MaxChunk == 3         \* lines in one delivered message
MaxFails == 1         \* runJob calls that fail in one run

\* ------------------------------------------------------- program constants
MinDepth == 6         \* Math.max(6, ...)
MaxDepth == 30        \* Math.min(30, ...)
DefaultDepth == 16    \* Number(depth) || 16
poolSize == 1         \* const poolSize = 1

Fens == 1..MaxFens
NullFen == 0          \* currentAnalyzeFen = null
DepthInputs == (MinDepth - 1)..(MinDepth + MaxDepthSpan)
JobIds == 1..MaxCalls
InitProc == 0         \* the createSlot() call; runJob(job j) is process j

Max(a, b) == IF a >= b THEN a ELSE b
Min(a, b) == IF a <= b THEN a ELSE b

\* boundedDepth = Math.max(6, Math.min(30, Number(depth) || 16))
boundedDepth(depth) ==
    Max(MinDepth, Min(MaxDepth, IF depth = 0 THEN DefaultDepth ELSE depth))

\* analyze({ fen, depth = 32 }): the values a caller passes as depth, a
\* number, undefined (or nothing), or a value whose Number() is NaN ('abc').
ParamDefaultDepth == 32   \* depth = 32
IntArg(n) == [kind |-> "number", n |-> n]
UndefinedArg == [kind |-> "undefined", n |-> 0]
NaNArg == [kind |-> "NaN", n |-> 0]
DepthArgs ==
    {UndefinedArg, NaNArg} \cup
    { IntArg(n) : n \in {0, MinDepth - 1, MinDepth, MinDepth + 1, MaxDepth + 1} }

\* the default value of the parameter replaces undefined
DefaultParam(a) == IF a.kind = "undefined" THEN IntArg(ParamDefaultDepth) ELSE a

\* boundedDepth of the argument: NaN || 16 is 16, as 0 || 16 is
boundedDepthArg(a) ==
    LET v == DefaultParam(a)
    IN boundedDepth(IF v.kind = "NaN" THEN 0 ELSE v.n)

\* A parsed info line, reduced to the fields the coordinator reads.
NullInfo == [depth |-> 0, multipv |-> 0, score |-> "null"]
ScoreTypes == {"cp", "mate"}
InfoLines(d) ==
    { [depth |-> x, multipv |-> m, score |-> s] :
        x \in {d - 1, d}, m \in {1, 2}, s \in ScoreTypes }

\* makeSnapshot(info, bestmove, done, fen, engineOutput).  job stands for the
\* identity of the snapshot object: one is built per completed job.
makeSnapshot(info, j, fen) == [job |-> j, fen |-> fen, info |-> info]
NoResult == [job |-> 0, fen |-> NullFen, info |-> NullInfo]

\* cache[fen][depth]: absent, the pending promise of a job, or a snapshot.
NoEntry == [kind |-> "none", job |-> 0, res |-> NoResult]
PromiseEntry(j) == [kind |-> "promise", job |-> j, res |-> NoResult]
ResultEntry(r) == [kind |-> "result", job |-> 0, res |-> r]
CacheFens == {NullFen} \cup Fens
CacheDepths ==
    ((MinDepth - 2)..(MinDepth + MaxDepthSpan + 1))
        \cup {DefaultDepth - 1, DefaultDepth, MaxDepth - 1, MaxDepth}

NoCurrent == [job |-> 0, lastInfo |-> NullInfo]
\* one posted command; job names the runJob call that posted it (0: none)
JobCmd(c, a, j) == [cmd |-> c, arg |-> a, job |-> j]
Cmd(c, a) == JobCmd(c, a, 0)
\* one delivered message: its first line and the lines joined after it
\* (of: for a readyok, the runJob call whose isready it answers)
Line(t, i) == [type |-> t, info |-> i, of |-> 0]
Msg(t, i) == [type |-> t, info |-> i, of |-> 0, more |-> << >>]
IdleProc == [pc |-> "idle", waitOn |-> 0]

VARIABLES
    cache,              \* cache[fen][depth]
    queue,              \* queue of job ids (the job objects are in jobs)
    jobs,               \* every job object created by analyze, with its promise
                        \* (final: history, the snapshot built at its bestmove)
    busy,               \* slot: busy
    current,            \* slot: current = { job, lastInfo } or null
    lastAnalyzeInfo,    \* slot: lastAnalyzeInfo
    currentAnalyzeFen,  \* slot: currentAnalyzeFen
    postPromise,        \* slot: postPromise (id of the promise object)
    postResolver,       \* slot: postResolver (id of the promise it resolves, 0 = null)
    resolved,           \* ids of the post promises that are resolved
    promises,           \* number of post promises created so far
    procs,              \* position of createSlot and of every runJob call
    toWorker,           \* commands posted to the worker, not yet read by it
    fromWorker,         \* lines printed by the worker, not yet handled
    search,             \* worker: depth of the running search, 0 when idle
    infosSent,          \* worker: info lines printed by the running search
    calls,              \* history: every analyze() call and what it returned
    stops,              \* history: number of stop() calls
    boundLog,           \* history: jobs in the order dispatch bound them
    settleLog,          \* history: jobs in the order their promises settled
    \* analyzeMove, from its three Terminal Results on (lines 606-646)
    mvStart,            \* start_fen_result
    mvEnd,              \* end_fen_result
    mvBest,             \* best_move_result
    mvThreshold,        \* blunderThreshold, in hundredths of a pawn
    mvTurn,             \* turn
    mvOut,              \* what the analyzeMove promise settles with
    \* analyzePGN (lines 649-687)
    pgnMoves,           \* moves.length
    pgnCallback,        \* whether onMoveAnalyzed was given
    pgnPromises,        \* result_promises: the state of each analyzeMove promise
    pgnPos,             \* second loop: position in result_promises
    pgnIndex,           \* index
    pgnResults,         \* results
    pgnCalled,          \* history: the results handed to onMoveAnalyzed, in order
    pgnState,           \* "awaiting", "returned" or "rejected"
    \* the rest of the public API
    apiCount,           \* history: calls of ready, terminate and analyzeMove
    readyOut,           \* what the promise of the ready() call settles with
    terminated,         \* worker.terminate() was called
    \* analyzeMove up to its three awaits (lines 566-604)
    mvProc,             \* the analyzeMove call: position, analyses, outcome
    argLog,             \* history: the depth arguments of the analyze calls
                        \* made with any kind of depth argument
    \* analyzeMove of the single-worker engine (client-side-engine.js)
    csMove,             \* the analyzeMove call: position in the function, outcome
    csCalls,            \* history: the fens analyze was called with
    \* the single-worker engine (client-side-engine.js), its worker included
    cs,
    \* StockfishEngine (stockfish-js-engine.js), its AsyncQueue and worker
    sf,
    \* class AsyncQueue (stockfish-js-engine.js) under tasks of any kind
    aq,
    \* loadEngine (stockfish-js-engine.js): its command queue and worker
    le,
    \* parseInfoLine as a function: the tokens of a line and what it returns
    pi,
    \* buttons.js: the four buttons, their timers and handlers
    btn,
    \* keyboards.js: the layout and the selected key of the virtual keyboard
    kb,
    \* chessboard.js: the squares of the board, the drag and the last event
    board

poolVars == << cache, queue, jobs, busy, current, lastAnalyzeInfo, currentAnalyzeFen,
               postPromise, postResolver, resolved, promises, procs, toWorker,
               fromWorker, search, infosSent, calls, stops, boundLog, settleLog >>
mainVars == << cache, queue, jobs, busy, current, lastAnalyzeInfo, currentAnalyzeFen,
               postPromise, postResolver, resolved, promises, procs, calls, stops,
               boundLog, settleLog >>
moveVars == << mvStart, mvEnd, mvBest, mvThreshold, mvTurn, mvOut >>
pgnVars == << pgnMoves, pgnCallback, pgnPromises, pgnPos, pgnIndex, pgnResults,
              pgnCalled, pgnState >>
apiVars == << apiCount, readyOut, terminated >>
composeVars == << mvProc, argLog, csMove, csCalls, cs, sf >>
uiVars == << aq, le, pi, btn, kb, board >>
vars == << poolVars, moveVars, pgnVars, apiVars, composeVars, uiVars >>

\* ------------------------------------------------------------- main thread
\* The part of the state that dispatch, runJob and stop change synchronously.
Main == [queue |-> queue, busy |-> busy, current |-> current, jobs |-> jobs,
         toWorker |-> toWorker, procs |-> procs, boundLog |-> boundLog,
         settleLog |-> settleLog]

SetMain(st) ==
    /\ queue' = st.queue
    /\ busy' = st.busy
    /\ current' = st.current
    /\ jobs' = st.jobs
    /\ toWorker' = st.toWorker
    /\ procs' = st.procs
    /\ boundLog' = st.boundLog
    /\ settleLog' = st.settleLog

\* The same with the cache and the record of the analyze calls, for analyze.
Pool == [queue |-> queue, busy |-> busy, current |-> current, jobs |-> jobs,
         toWorker |-> toWorker, procs |-> procs, boundLog |-> boundLog,
         settleLog |-> settleLog, cache |-> cache, calls |-> calls]

SetPool(st) ==
    /\ SetMain(st)
    /\ cache' = st.cache
    /\ calls' = st.calls

\* job.reject(err): settles the job's promise unless it is settled already.
RejectJob(st, j, err) ==
    IF st.jobs[j].state = "pending"
    THEN [st EXCEPT !.jobs[j].state = "rejected", !.jobs[j].error = err,
                    !.settleLog = Append(@, j)]
    ELSE st

\* job.resolve(finalResult)
ResolveJob(st, j, r) ==
    IF st.jobs[j].state = "pending"
    THEN [st EXCEPT !.jobs[j].state = "resolved", !.jobs[j].value = r,
                    !.settleLog = Append(@, j)]
    ELSE st

\* createSlot.stop: post('stop'); reject and drop current; busy = false.
SlotStop(st) ==
    LET s1 == [st EXCEPT !.toWorker = Append(@, Cmd("stop", 0))]
        s2 == IF s1.current.job # 0
              THEN [RejectJob(s1, s1.current.job, "stopped") EXCEPT !.current = NoCurrent]
              ELSE s1
    IN [s2 EXCEPT !.busy = FALSE]

\* createSlot.runJob up to its first await: cancel a previous job, then
\* post('ucinewgame'), which posts at once and returns postPromise.
RunJobStart(st, j) ==
    LET s1 == IF st.current.job # 0
              THEN [SlotStop(st) EXCEPT !.current = NoCurrent]
              ELSE st
    IN [s1 EXCEPT !.toWorker = Append(@, JobCmd("ucinewgame", 0, j)),
                  !.procs[j] = [pc |-> "newgame_ret", waitOn |-> postPromise]]

\* queue.shift()
QueueShiftLast(q) == [job |-> q[Len(q)], rest |-> SubSeq(q, 1, Len(q) - 1)]
QueueShift(q) == [job |-> Head(q), rest |-> Tail(q)]

\* dispatch(): while the slot is not busy and the queue is not empty, shift
\* the head, mark the slot busy and start runJob.
RECURSIVE dispatch(_)
dispatch(st) ==
    IF st.busy \/ st.queue = << >>
    THEN st
    ELSE LET sh == QueueShift(st.queue)
         IN dispatch(RunJobStart([st EXCEPT !.queue = sh.rest,
                                            !.busy = TRUE,
                                            !.boundLog = Append(@, sh.job)],
                                 sh.job))

\* ------------------------------------------------------------- microtasks
WaitPcs == {"uci_pre", "uci_ack", "isready_pre", "isready_ack", "setoption_ret",
            "newgame_ret", "position_ret", "go_pre"}
AwaitDone(p) == procs[p].pc \in WaitPcs /\ procs[p].waitOn \in resolved
\* (a rejected runJob promise has its catch handler ready)
Ready(p) == AwaitDone(p) \/ procs[p].pc = "rejected"

\* What the future returned by the i-th analyze call has settled with, and
\* the error it is rejected with.
FutureState(i) ==
    IF calls[i].entry.kind = "result" THEN "resolved"
    ELSE jobs[calls[i].entry.job].state
FutureError(i) ==
    IF calls[i].entry.kind = "result" THEN "none"
    ELSE jobs[calls[i].entry.job].error
\* what the promise returned by call i is resolved with
FutureValue(i) ==
    IF calls[i].entry.kind = "result" THEN calls[i].entry.res
    ELSE jobs[calls[i].entry.job].value

\* analyzeMove is at an await whose promise is settled.
MoveAwaited ==
    CASE mvProc.pc = "await_start" -> mvProc.start
      [] mvProc.pc = "await_end" -> mvProc.end
      [] mvProc.pc = "await_best" -> mvProc.best
      [] OTHER -> 0
MoveReadyEarly == MoveAwaited # 0
MoveReady == MoveAwaited # 0 /\ FutureState(MoveAwaited) # "pending"

\* No promise continuation is ready: the event loop takes the next message.
NoReady ==
    /\ \A p \in DOMAIN procs : ~Ready(p)
    /\ ~MoveReady
    /\ readyOut # "pending"
EngineCreated == procs[InitProc].pc = "done"

\* post(cmd) after its 'await postPromise', for a command that expects an
\* answer: a new postPromise and postResolver, then worker.postMessage(cmd).
PostAck(p, c, nextPc) ==
    /\ promises' = promises + 1
    /\ postPromise' = promises + 1
    /\ postResolver' = promises + 1
    /\ toWorker' = Append(toWorker, c)
    /\ procs' = [procs EXCEPT ![p] = [pc |-> nextPc, waitOn |-> promises + 1]]

\* createSlot: await post('uci'); await post('isready');
\* await post('setoption name Threads value 16').
ResumeCreateSlot ==
    /\ AwaitDone(InitProc)
    /\ \/ /\ procs[InitProc].pc = "uci_pre"
          /\ PostAck(InitProc, Cmd("uci", 0), "uci_ack")
       \/ /\ procs[InitProc].pc = "uci_ack"
          /\ procs' = [procs EXCEPT ![InitProc] = [pc |-> "isready_pre", waitOn |-> postPromise]]
          /\ UNCHANGED << promises, postPromise, postResolver, toWorker >>
       \/ /\ procs[InitProc].pc = "isready_pre"
          /\ PostAck(InitProc, Cmd("isready", 0), "isready_ack")
       \/ /\ procs[InitProc].pc = "isready_ack"
          /\ toWorker' = Append(toWorker, Cmd("setoption", 0))
          /\ procs' = [procs EXCEPT ![InitProc] = [pc |-> "setoption_ret", waitOn |-> postPromise]]
          /\ UNCHANGED << promises, postPromise, postResolver >>
       \/ /\ procs[InitProc].pc = "setoption_ret"
          /\ procs' = [procs EXCEPT ![InitProc] = [pc |-> "done", waitOn |-> 0]]
          /\ UNCHANGED << promises, postPromise, postResolver, toWorker >>
    /\ UNCHANGED << cache, queue, jobs, busy, current, lastAnalyzeInfo,
                    currentAnalyzeFen, resolved, fromWorker, search, infosSent,
                    calls, stops, boundLog, settleLog >>
    /\ UNCHANGED << moveVars, pgnVars, apiVars, composeVars, uiVars >>

\* createSlot.runJob(job j) after its first await.
ResumeRunJob(j) ==
    /\ AwaitDone(j)
    /\ \/ /\ procs[j].pc = "newgame_ret"          \* post('isready'): await postPromise
          /\ procs' = [procs EXCEPT ![j] = [pc |-> "isready_pre", waitOn |-> postPromise]]
          /\ UNCHANGED << promises, postPromise, postResolver, toWorker,
                          currentAnalyzeFen, current >>
       \/ /\ procs[j].pc = "isready_pre"
          /\ PostAck(j, JobCmd("isready", 0, j), "isready_ack")
          /\ UNCHANGED << currentAnalyzeFen, current >>
       \/ /\ procs[j].pc = "isready_ack"          \* readyok seen
          /\ currentAnalyzeFen' = jobs[j].fen
          /\ toWorker' = Append(toWorker, JobCmd("position", jobs[j].fen, j))
          /\ procs' = [procs EXCEPT ![j] = [pc |-> "position_ret", waitOn |-> postPromise]]
          /\ UNCHANGED << promises, postPromise, postResolver, current >>
       \/ /\ procs[j].pc = "position_ret"         \* post('go ...'): await postPromise
          /\ current' = [job |-> j, lastInfo |-> NullInfo]
          /\ procs' = [procs EXCEPT ![j] = [pc |-> "go_pre", waitOn |-> postPromise]]
          /\ UNCHANGED << promises, postPromise, postResolver, toWorker,
                          currentAnalyzeFen >>
       \/ /\ procs[j].pc = "go_pre"
          /\ PostAck(j, JobCmd("go", jobs[j].depth, j), "done")
          /\ UNCHANGED << currentAnalyzeFen, current >>
    /\ UNCHANGED << cache, queue, jobs, busy, lastAnalyzeInfo, resolved,
                    fromWorker, search, infosSent, calls, stops, boundLog,
                    settleLog >>
    /\ UNCHANGED << moveVars, pgnVars, apiVars, composeVars, uiVars >>

\* ------------------------------------------------------------ public API
\* Whether analyze finds cache[fen][boundedDepth].
CacheHitResultOnly(e) == e.kind = "result"
CacheHit(e) == e.kind # "none"

\* Whether a Terminal Result exists for a cache entry: a snapshot, or a
\* promise that is settled.
HasResultIn(js, e) ==
    \/ e.kind = "result"
    \/ e.kind = "promise" /\ js[e.job].state # "pending"
HasResult(e) == HasResultIn(jobs, e)

\* Whether a cache entry is the promise of a request that was cancelled
\* (rejected) or dropped (pending, neither queued nor bound to the worker).
Dead(st, e) ==
    /\ e.kind = "promise"
    /\ \/ st.jobs[e.job].state = "rejected"
       \/ /\ st.jobs[e.job].state = "pending"
          /\ \A i \in DOMAIN st.queue : st.queue[i] # e.job
          /\ \A i \in DOMAIN st.boundLog : st.boundLog[i] # e.job

\* analyze({ fen, depth }) on the state st, called by "user" code or by
\* analyzeMove ("move"); the call and what it returns are recorded in calls.
analyze(st, fen, a, by) ==
    LET d == boundedDepthArg(a)
        e == st.cache[fen][d]
        j == Len(st.jobs) + 1
        call(entry, fresh) ==
            [fen |-> fen, depth |-> d, entry |-> entry, fresh |-> fresh,
             noResult |-> ~fresh => ~HasResultIn(st.jobs, e),
             dead |-> ~fresh /\ Dead(st, e),
             terminated |-> terminated, by |-> by]
    IN IF CacheHit(e)
       THEN [st EXCEPT !.calls = Append(@, call(e, FALSE))]
       ELSE dispatch([st EXCEPT
                !.cache[fen][d] = PromiseEntry(j),
                !.calls = Append(@, call(PromiseEntry(j), TRUE)),
                !.jobs = Append(@, [fen |-> fen, depth |-> d, state |-> "pending",
                                    value |-> NoResult, error |-> "none",
                                    final |-> NoResult]),
                !.queue = Append(@, j)])

\* Calls made by user code so far, and the analyze calls that a running
\* analyzeMove may still make: the run is bounded by MaxCalls of each.
UserCalls ==
    Cardinality({ i \in DOMAIN calls : calls[i].by = "user" }) + stops + apiCount
MoveReserve == IF mvProc.pc = "await_start" THEN 1 ELSE 0
CallAllowed == UserCalls < MaxCalls /\ Len(calls) + MoveReserve < MaxCalls

AnalyzeBody(fen, a) ==
    /\ EngineCreated
    /\ CallAllowed
    /\ SetPool(analyze(Pool, fen, a, "user"))
    /\ UNCHANGED << lastAnalyzeInfo, currentAnalyzeFen, postPromise, postResolver,
                    resolved, promises, fromWorker, search, infosSent, stops >>
    /\ UNCHANGED << moveVars, pgnVars, apiVars, mvProc, csMove, csCalls, cs, sf, uiVars >>

\* analyze with a number for depth
Analyze(fen, depth) == AnalyzeBody(fen, IntArg(depth)) /\ UNCHANGED argLog

\* analyze with any kind of depth argument
AnalyzeArg(fen, a) ==
    /\ Len(argLog) = Len(calls)
    /\ AnalyzeBody(fen, a)
    /\ argLog' = Append(argLog, a)

\* stop(): queue.length = 0; for (const s of slots) s.stop()
Stop ==
    /\ EngineCreated
    /\ UserCalls < MaxCalls
    /\ stops' = stops + 1
    /\ SetMain(SlotStop([Main EXCEPT !.queue = << >>]))
    /\ UNCHANGED << cache, lastAnalyzeInfo, currentAnalyzeFen, postPromise,
                    postResolver, resolved, promises, fromWorker, search,
                    infosSent, calls >>
    /\ UNCHANGED << moveVars, pgnVars, apiVars, composeVars, uiVars >>

\* ready(): await Promise.all(slots.map(s => s.ready())).  The handle that
\* createSlot returns is built with the shorthand member `ready`, which
\* names the function ready of the pool itself (createSlot declares none):
\* s.ready() is a nested call of ready().  The nesting ends when the call
\* stack is full; the RangeError rejects the innermost promise and, through
\* Promise.all and await, every promise on the way out.
MaxStack == 3         \* nested calls the call stack holds

PromiseAll(ps) ==
    IF \E i \in DOMAIN ps : ps[i] = "rejected" THEN "rejected" ELSE "resolved"

RECURSIVE ready(_), SlotReady(_)
ready(n) ==
    IF n >= MaxStack THEN "rejected"
    ELSE PromiseAll([i \in 1..poolSize |-> SlotReady(n)])
SlotReady(n) == ready(n + 1)

ReadyCall ==
    /\ EngineCreated
    /\ readyOut = "none"
    /\ UserCalls < MaxCalls
    /\ apiCount' = apiCount + 1
    /\ readyOut' = "pending"
    /\ UNCHANGED << terminated, poolVars, moveVars, pgnVars, composeVars, uiVars >>

\* the promise of the outermost call settles
ReadySettle ==
    /\ readyOut = "pending"
    /\ readyOut' = ready(1)
    /\ UNCHANGED << apiCount, terminated, poolVars, moveVars, pgnVars, composeVars, uiVars >>

\* terminate(): stop(); for (const s of slots) s.terminate().  The worker
\* stops at once; lines it had printed may or may not still be delivered.
Terminate ==
    /\ EngineCreated
    /\ ~terminated
    /\ UserCalls < MaxCalls
    /\ apiCount' = apiCount + 1
    /\ terminated' = TRUE
    /\ SetMain(SlotStop([Main EXCEPT !.queue = << >>]))
    /\ \E delivered \in BOOLEAN :
           fromWorker' = IF delivered THEN fromWorker ELSE << >>
    /\ UNCHANGED << cache, lastAnalyzeInfo, currentAnalyzeFen, postPromise,
                    postResolver, resolved, promises, search, infosSent, calls,
                    stops, readyOut >>
    /\ UNCHANGED << moveVars, pgnVars, composeVars, uiVars >>

\* setOption(name, value): nothing for a falsy name; otherwise s.setBusy(true)
\* for every slot, then s.ready() for every slot, whose promise (rejected,
\* as that of ready() is) only gets an empty then-callback.  No command is
\* posted and busy is not set back.
OptionNames == {"", "Threads"}
SetOption(name) ==
    /\ EngineCreated
    /\ UserCalls < MaxCalls
    /\ apiCount' = apiCount + 1
    /\ busy' = IF name = "" THEN busy ELSE TRUE
    /\ UNCHANGED << cache, queue, jobs, current, lastAnalyzeInfo, currentAnalyzeFen,
                    postPromise, postResolver, resolved, promises, procs, toWorker,
                    fromWorker, search, infosSent, calls, stops, boundLog, settleLog >>
    /\ UNCHANGED << readyOut, terminated, moveVars, pgnVars, composeVars, uiVars >>

\* ------------------------------------------- analyzeMove up to its awaits
\* const move = chess.move(move_san, ...); if (move === null) throw
MoveInvalid(move) == move = "null"

MoveIdleProc == [pc |-> "idle", move |-> "null", depth |-> 0, start |-> 0,
                 end |-> 0, best |-> 0, bestFrom |-> 0, error |-> "none"]
MoveRejected(err) == [mvProc EXCEPT !.pc = "rejected", !.error = err]

\* analyzeMove({ fenBeforeMove, move_san, depth }): move is what the rules
\* engine returns for move_san, after the position it leads to.  A valid
\* move submits the analyses of both positions before the first await.
MoveCall(fen, after, d, move) ==
    /\ EngineCreated
    /\ mvProc.pc = "idle"
    /\ UserCalls < MaxCalls
    /\ Len(calls) + (IF move = "null" THEN 0 ELSE 3) <= MaxCalls
    /\ apiCount' = apiCount + 1
    /\ IF MoveInvalid(move)
       THEN /\ mvProc' = [MoveRejected("Invalid move") EXCEPT !.move = move]
            /\ UNCHANGED << cache, calls, queue, busy, current, jobs, toWorker,
                            procs, boundLog, settleLog >>
       ELSE /\ SetPool(analyze(analyze(Pool, fen, IntArg(d), "move"),
                               after, IntArg(d), "move"))
            /\ mvProc' = [pc |-> "await_start", move |-> move, depth |-> d,
                          start |-> Len(calls) + 1, end |-> Len(calls) + 2,
                          best |-> 0, bestFrom |-> 0, error |-> "none"]
    /\ UNCHANGED << lastAnalyzeInfo, currentAnalyzeFen, postPromise, postResolver,
                    resolved, promises, fromWorker, search, infosSent, stops,
                    readyOut, terminated >>
    /\ UNCHANGED << moveVars, pgnVars, argLog, csMove, csCalls, cs, sf, uiVars >>

\* const best_move_uci = start_fen_result.bestmove.move_uci: the move is
\* read from the snapshot that the start analysis resolved with (named by
\* the job whose bestmove line built it)
MoveBestSource == FutureValue(mvProc.start).job

\* analyzeMove after an await: a rejected analysis makes the await throw;
\* after the start result, the analysis of the position after the engine's
\* best move is submitted (the start position itself when chess.move
\* refuses the engine's move).
MoveResume ==
    /\ MoveReady
    /\ IF FutureState(MoveAwaited) = "rejected"
       THEN /\ mvProc' = MoveRejected(FutureError(MoveAwaited))
            /\ UNCHANGED << cache, calls, queue, busy, current, jobs, toWorker,
                            procs, boundLog, settleLog >>
       ELSE \/ /\ mvProc.pc = "await_start"
               /\ \E b \in Fens :
                      SetPool(analyze(Pool, b, IntArg(mvProc.depth), "move"))
               /\ mvProc' = [mvProc EXCEPT !.pc = "await_end",
                                           !.best = Len(calls) + 1,
                                           !.bestFrom = MoveBestSource]
            \/ /\ mvProc.pc = "await_end"
               /\ mvProc' = [mvProc EXCEPT !.pc = "await_best"]
               /\ UNCHANGED << cache, calls, queue, busy, current, jobs, toWorker,
                               procs, boundLog, settleLog >>
            \/ /\ mvProc.pc = "await_best"
               /\ mvProc' = [mvProc EXCEPT !.pc = "validate"]
               /\ UNCHANGED << cache, calls, queue, busy, current, jobs, toWorker,
                               procs, boundLog, settleLog >>
    /\ UNCHANGED << lastAnalyzeInfo, currentAnalyzeFen, postPromise, postResolver,
                    resolved, promises, fromWorker, search, infosSent, stops >>
    /\ UNCHANGED << moveVars, pgnVars, apiVars, argLog, csMove, csCalls, cs, sf, uiVars >>

\* ------------------------------------------------- a failing runJob
\* worker.postMessage(cmd) throws in post, called by runJob(j) for isready,
\* position or go: what post and runJob did before the call stays done, the
\* command is not sent, and the promises of post and of runJob are rejected.
Fails == Cardinality({ p \in JobIds : procs[p].pc \in {"rejected", "caught"} })

PostThrows(j) ==
    /\ AwaitDone(j)
    /\ Fails < MaxFails
    /\ \/ /\ procs[j].pc \in {"isready_pre", "go_pre"}
          /\ promises' = promises + 1
          /\ postPromise' = promises + 1
          /\ postResolver' = promises + 1
          /\ UNCHANGED currentAnalyzeFen
       \/ /\ procs[j].pc = "isready_ack"
          /\ currentAnalyzeFen' = jobs[j].fen
          /\ UNCHANGED << promises, postPromise, postResolver >>
    /\ procs' = [procs EXCEPT ![j] = [pc |-> "rejected", waitOn |-> 0]]
    /\ UNCHANGED << cache, queue, jobs, busy, current, lastAnalyzeInfo, resolved,
                    toWorker, fromWorker, search, infosSent, calls, stops,
                    boundLog, settleLog >>
    /\ UNCHANGED << moveVars, pgnVars, apiVars, composeVars, uiVars >>

\* dispatch: slot.runJob(job).catch((err) => { slot.setBusy(false);
\* job.reject(err); dispatch(); })
CatchHandlerNoDispatch(st, j) == RejectJob([st EXCEPT !.busy = FALSE], j, "post failed")
CatchHandler(st, j) == dispatch(RejectJob([st EXCEPT !.busy = FALSE], j, "post failed"))

RunJobCatch(j) ==
    /\ procs[j].pc = "rejected"
    /\ SetMain(CatchHandler([Main EXCEPT !.procs[j].pc = "caught"], j))
    /\ UNCHANGED << cache, lastAnalyzeInfo, currentAnalyzeFen, postPromise,
                    postResolver, resolved, promises, fromWorker, search,
                    infosSent, calls, stops >>
    /\ UNCHANGED << moveVars, pgnVars, apiVars, composeVars, uiVars >>

\* ------------------------- analyzeMove of the single-worker engine
\* const move_san = chess.move(move, { sloppy: true })?.san: the optional
\* chaining gives undefined, not null, when chess.move returns null.
MoveSan(move) == IF move = "null" THEN "undefined" ELSE "san"
\* if (move_san === null) throw new Error('Invalid move: ...')
ClientMoveInvalid(move) == MoveSan(move) = "null"

ClientMoveIdle == [pc |-> "idle", move |-> "null", error |-> "none"]

\* analyzeMove({ starting_fen, move, depth }) up to its first await: when the
\* test lets the move through, analyze is called for starting_fen.  In the
\* engine's state after construction (cache empty, no search current) that
\* call changes nothing before it awaits ready().
ClientMoveCall(fen, move) ==
    /\ csMove.pc = "idle"
    /\ UserCalls < MaxCalls
    /\ apiCount' = apiCount + 1
    /\ IF ClientMoveInvalid(move)
       THEN /\ csMove' = [pc |-> "rejected", move |-> move, error |-> "Invalid move"]
            /\ UNCHANGED csCalls
       ELSE /\ csMove' = [pc |-> "await_start", move |-> move, error |-> "none"]
            /\ csCalls' = Append(csCalls, fen)
    /\ UNCHANGED << readyOut, terminated, poolVars, moveVars, pgnVars, mvProc,
                    argLog, cs, sf, uiVars >>

\* ------------------------------------------- the single-worker engine
\* createStockfishEngine of client-side-engine.js.  cs holds its variables
\* under their names (readyResolved: readyPromise is resolved), the analyze
\* calls made so far (reqs), the channel to and from its worker and the
\* worker's search.  An info or bestmove line carries the request whose go
\* command started the search that printed it.
ClientDepths == {MinDepth, MinDepth + 1}
CsNullInfo == [req |-> 0, depth |-> 0]
CsNoResult == [info |-> CsNullInfo, bestmove |-> 0, fen |-> NullFen]
CsNoSearch == [req |-> 0, depth |-> 0, infos |-> 0]
CsLine(t, r, d) == [type |-> t, req |-> r, depth |-> d]

ClientInit ==
    [ readyResolved |-> FALSE,
      current |-> 0,
      lastAnalyzeInfo |-> CsNullInfo,
      currentAnalyzeFen |-> NullFen,
      cache |-> [f \in Fens |-> CsNoResult],
      reqs |-> << >>,
      stops |-> 0,
      toWorker |-> << JobCmd("uci", 0, 0), JobCmd("isready", 0, 0) >>,
      fromWorker |-> << >>,
      search |-> CsNoSearch ]

\* calls of analyze and stop made so far: the run is bounded by MaxCalls
ClientCalls == Len(cs.reqs) + cs.stops

\* Math.max(6, Math.min(30, Number(depth) || 16)) in 'go depth ...'
ClientGoDepth(depth) == boundedDepth(depth)

\* if (fen in cache): any finished search for the fen, whatever its depth
ClientCacheHit(fen) == cs.cache[fen] # CsNoResult

\* analyze({ fen, depth }) up to its first await: a cache hit returns the
\* cached snapshot; otherwise a search that is current is stopped and
\* dropped, and the call awaits ready().
ClientAnalyze(fen, depth) ==
    /\ ClientCalls < MaxCalls
    /\ LET req(pc, state, value) ==
               [fen |-> fen, depth |-> depth, pc |-> pc, state |-> state,
                value |-> value, preempted |-> 0]
       IN IF ClientCacheHit(fen)
          THEN cs' = [cs EXCEPT !.reqs = Append(@, req("hit", "resolved", cs.cache[fen]))]
          ELSE IF cs.current # 0
          THEN cs' = [cs EXCEPT
                        !.reqs = Append(@, [req("ready1", "pending", CsNoResult)
                                             EXCEPT !.preempted = cs.current]),
                        !.toWorker = Append(@, JobCmd("stop", 0, 0)),
                        !.current = 0]
          ELSE cs' = [cs EXCEPT !.reqs = Append(@, req("ready1", "pending", CsNoResult))]
    /\ UNCHANGED << poolVars, moveVars, pgnVars, apiVars, mvProc, argLog, csMove, csCalls, sf, uiVars >>

\* analyze after an await of ready(), which goes on once readyPromise is
\* resolved: first post('ucinewgame'), post('isready') and await ready()
\* again; then set the position, become current and post go.
ClientReady(r) == cs.readyResolved /\ cs.reqs[r].pc \in {"ready1", "ready2"}
ClientNoReady == \A r \in DOMAIN cs.reqs : ~ClientReady(r)

ClientResume(r) ==
    /\ r \in DOMAIN cs.reqs
    /\ ClientReady(r)
    /\ IF cs.reqs[r].pc = "ready1"
       THEN cs' = [cs EXCEPT
                     !.toWorker = @ \o << JobCmd("ucinewgame", 0, r), JobCmd("isready", 0, r) >>,
                     !.reqs[r].pc = "ready2"]
       ELSE cs' = [cs EXCEPT
                     !.currentAnalyzeFen = cs.reqs[r].fen,
                     !.current = r,
                     !.toWorker = @ \o << JobCmd("position", cs.reqs[r].fen, r),
                                          JobCmd("go", ClientGoDepth(cs.reqs[r].depth), r) >>,
                     !.reqs[r].pc = "go"]
    /\ UNCHANGED << poolVars, moveVars, pgnVars, apiVars, mvProc, argLog, csMove, csCalls, sf, uiVars >>

\* stop(): post('stop'); reject and drop current
ClientStop ==
    /\ ClientCalls < MaxCalls
    /\ cs' = [cs EXCEPT
                 !.stops = @ + 1,
                 !.toWorker = Append(@, JobCmd("stop", 0, 0)),
                 !.current = 0,
                 !.reqs = IF cs.current # 0
                          THEN [@ EXCEPT ![cs.current].state = "rejected"]
                          ELSE @]
    /\ UNCHANGED << poolVars, moveVars, pgnVars, apiVars, mvProc, argLog, csMove, csCalls, sf, uiVars >>

\* worker.onmessage: uciok does nothing; readyok resolves readyPromise; an
\* info line is kept in lastAnalyzeInfo while a request is current; a
\* bestmove line completes the current request, if any: the final result
\* is built from lastAnalyzeInfo and currentAnalyzeFen and written to
\* cache[fen].
ClientFinalResult(line) ==
    [info |-> cs.lastAnalyzeInfo, bestmove |-> line.req, fen |-> cs.currentAnalyzeFen]

ClientOnMessage ==
    /\ ClientNoReady
    /\ cs.fromWorker # << >>
    /\ LET line == Head(cs.fromWorker)
           c1 == [cs EXCEPT !.fromWorker = Tail(@)]
       IN cs' =
            CASE line.type = "readyok" -> [c1 EXCEPT !.readyResolved = TRUE]
              [] line.type = "info" /\ cs.current # 0 ->
                    [c1 EXCEPT !.lastAnalyzeInfo = [req |-> line.req, depth |-> line.depth]]
              [] line.type = "bestmove" /\ cs.current # 0 ->
                    [c1 EXCEPT
                       !.cache[cs.currentAnalyzeFen] = ClientFinalResult(line),
                       !.reqs[cs.current].state = "resolved",
                       !.reqs[cs.current].value = ClientFinalResult(line),
                       !.current = 0,
                       !.lastAnalyzeInfo = CsNullInfo,
                       !.currentAnalyzeFen = NullFen]
              [] OTHER -> c1
    /\ UNCHANGED << poolVars, moveVars, pgnVars, apiVars, mvProc, argLog, csMove, csCalls, sf, uiVars >>

\* The worker of the single-worker engine reads its commands in order, as
\* the pool's worker does: uci and isready are answered, go starts a search
\* once no search is running, stop ends a running search with its bestmove
\* line, the other commands print nothing.
ClientWorkerRead ==
    /\ cs.toWorker # << >>
    /\ LET c == Head(cs.toWorker)
           c1 == [cs EXCEPT !.toWorker = Tail(@)]
       IN /\ c.cmd = "go" => cs.search = CsNoSearch
          /\ cs' =
               CASE c.cmd = "uci" ->
                       [c1 EXCEPT !.fromWorker = Append(@, CsLine("uciok", 0, 0))]
                 [] c.cmd = "isready" ->
                       [c1 EXCEPT !.fromWorker = Append(@, CsLine("readyok", 0, 0))]
                 [] c.cmd = "go" ->
                       [c1 EXCEPT !.search = [req |-> c.job, depth |-> c.arg, infos |-> 0]]
                 [] c.cmd = "stop" /\ cs.search # CsNoSearch ->
                       [c1 EXCEPT !.fromWorker = Append(@, CsLine("bestmove", cs.search.req, 0)),
                                  !.search = CsNoSearch]
                 [] OTHER -> c1
    /\ UNCHANGED << poolVars, moveVars, pgnVars, apiVars, mvProc, argLog, csMove, csCalls, sf, uiVars >>

ClientWorkerInfo ==
    /\ cs.search # CsNoSearch
    /\ cs.search.infos < MaxInfos
    /\ cs' = [cs EXCEPT
                 !.fromWorker = Append(@, CsLine("info", cs.search.req, cs.search.depth)),
                 !.search.infos = @ + 1]
    /\ UNCHANGED << poolVars, moveVars, pgnVars, apiVars, mvProc, argLog, csMove, csCalls, sf, uiVars >>

ClientWorkerBestmove ==
    /\ cs.search # CsNoSearch
    /\ cs' = [cs EXCEPT
                 !.fromWorker = Append(@, CsLine("bestmove", cs.search.req, 0)),
                 !.search = CsNoSearch]
    /\ UNCHANGED << poolVars, moveVars, pgnVars, apiVars, mvProc, argLog, csMove, csCalls, sf, uiVars >>

\* ------------------------------------------------- StockfishEngine
\* class StockfishEngine and class AsyncQueue of stockfish-js-engine.js.  sf
\* holds the engine's fields under their names (ready: readyPromise is
\* resolved; listen: the response the registered message listener waits
\* for), the fields of its AsyncQueue (queue, running, clearRequested), the
\* job objects made by analyzePosition, the public calls still awaiting
\* readyPromise, the position of the task the queue is running, and the
\* channel to and from the worker with the worker's search.
SfDepths == {MinDepth, MinDepth + 1}
\* cacheHash = `${startpos}${moves.map(move => move.san).join('')}${depth}`,
\* for calls without moves
cacheHash(startpos, depth) == << startpos, depth >>
SfKeys == { cacheHash(f, d) : f \in Fens, d \in SfDepths }
SfNullInfo == [depth |-> 0, type |-> "null"]
SfNoSearch == [job |-> 0, depth |-> 0, infos |-> 0]
SfNoTask == [job |-> 0, pc |-> "none"]
SfLine(t, d, s) == [type |-> t, depth |-> d, score |-> s]

\* the state after new StockfishEngine(): the executor of readyPromise has
\* posted uci and waits for uciok
SfInit ==
    [ ready |-> FALSE,
      listen |-> "uciok",
      analyzeCache |-> [k \in SfKeys |-> 0],
      jobs |-> << >>,
      calls |-> << >>,
      ncalls |-> 0,
      queue |-> << >>,
      running |-> FALSE,
      clearRequested |-> FALSE,
      task |-> SfNoTask,
      toWorker |-> << "uci" >>,
      toDepth |-> << 0 >>,
      fromWorker |-> << >>,
      search |-> SfNoSearch ]

SfPost(st, cmd, d) ==
    [st EXCEPT !.toWorker = Append(@, cmd), !.toDepth = Append(@, d)]

\* analyzePosition(startpos, [], depth) and stop() up to their first line,
\* await this.readyPromise: the calls go on in the order they were made
SfAnalyzePosition(f, d) ==
    /\ sf.ncalls < MaxCalls
    /\ sf' = [sf EXCEPT !.ncalls = @ + 1,
                        !.calls = Append(@, [op |-> "analyze", key |-> cacheHash(f, d)])]
    /\ UNCHANGED << poolVars, moveVars, pgnVars, apiVars, mvProc, argLog, csMove, csCalls, cs, uiVars >>

SfStop ==
    /\ sf.ncalls < MaxCalls
    /\ sf' = [sf EXCEPT !.ncalls = @ + 1,
                        !.calls = Append(@, [op |-> "stop", key |-> << >>])]
    /\ UNCHANGED << poolVars, moveVars, pgnVars, apiVars, mvProc, argLog, csMove, csCalls, cs, uiVars >>

\* AsyncQueue.run from the top of its loop: a task shifted while
\* clearRequested is set is rejected and the loop goes on; otherwise the
\* task is called and runs up to its first await (in _stop); after the loop
\* running and clearRequested are reset.
SfRunLoop(st) ==
    IF st.queue = << >>
    THEN [st EXCEPT !.running = FALSE, !.clearRequested = FALSE, !.task = SfNoTask]
    ELSE IF st.clearRequested
    THEN [st EXCEPT
            !.jobs = [j \in DOMAIN st.jobs |->
                        IF \E i \in DOMAIN st.queue : st.queue[i] = j
                        THEN [st.jobs[j] EXCEPT !.task = "cleared"]
                        ELSE st.jobs[j]],
            !.queue = << >>,
            !.running = FALSE, !.clearRequested = FALSE, !.task = SfNoTask]
    ELSE [st EXCEPT
            !.jobs[Head(st.queue)].task = "running",
            !.queue = Tail(@),
            !.task = [job |-> Head(st.queue), pc |-> "stop"]]

\* AsyncQueue.enqueue: push, then run(), which returns at once when the
\* loop is running
SfEnqueue(st, j) ==
    LET pushed == [st EXCEPT !.queue = Append(@, j)]
    IN IF st.running
       THEN pushed
       ELSE SfRunLoop([pushed EXCEPT !.running = TRUE])

\* AsyncQueue.clear
SfClear(st) ==
    IF st.running THEN [st EXCEPT !.clearRequested = TRUE] ELSE st

\* let job = { callbacks, promise, latestInfo: null }, with the state of its
\* promise, the callers the promise was returned to and the state of its
\* task in the queue
SfNewJob(k) ==
    [key |-> k, state |-> "pending", latestInfo |-> SfNullInfo,
     value |-> SfNullInfo, callers |-> 1, task |-> "queued"]

\* the body of analyzePosition after await this.readyPromise: a truthy cache
\* entry hands out its job's promise; otherwise a job is made, stored under
\* the key and its task enqueued.  The body of stop(): post stop, clear the
\* queue.
SfResumeCall ==
    /\ sf.ready
    /\ sf.calls # << >>
    /\ LET c == Head(sf.calls)
           s1 == [sf EXCEPT !.calls = Tail(@)]
       IN sf' =
            IF c.op = "stop"
            THEN SfClear(SfPost(s1, "stop", 0))
            ELSE IF sf.analyzeCache[c.key] # 0
            THEN [s1 EXCEPT !.jobs[sf.analyzeCache[c.key]].callers = @ + 1]
            ELSE LET j == Len(sf.jobs) + 1
                 IN SfEnqueue([s1 EXCEPT !.jobs = Append(@, SfNewJob(c.key)),
                                         !.analyzeCache[c.key] = j], j)
    /\ UNCHANGED << poolVars, moveVars, pgnVars, apiVars, mvProc, argLog, csMove, csCalls, cs, uiVars >>

\* the task of a job, one step per await: await this._stop() posts stop,
\* await this._position(startpos, moves) posts position, then
\* _postMessage(`go depth ${depth}`, 'bestmove', ...) posts go and registers
\* its listener
SfTaskStep ==
    /\ sf.task.pc \in {"stop", "position", "go"}
    /\ LET k == sf.jobs[sf.task.job].key
       IN sf' =
            CASE sf.task.pc = "stop" ->
                    [SfPost(sf, "stop", 0) EXCEPT !.task.pc = "position"]
              [] sf.task.pc = "position" ->
                    [SfPost(sf, "position", 0) EXCEPT !.task.pc = "go"]
              [] sf.task.pc = "go" ->
                    [SfPost(sf, "go", k[2]) EXCEPT !.task.pc = "search",
                                                   !.listen = "bestmove"]
    /\ UNCHANGED << poolVars, moveVars, pgnVars, apiVars, mvProc, argLog, csMove, csCalls, cs, uiVars >>

\* run() after await asyncFn(): the task's promise is resolved and the loop
\* goes on
SfTaskDone ==
    /\ sf.task.pc = "done"
    /\ sf' = SfRunLoop([sf EXCEPT !.jobs[sf.task.job].task = "done"])
    /\ UNCHANGED << poolVars, moveVars, pgnVars, apiVars, mvProc, argLog, csMove, csCalls, cs, uiVars >>

\* a continuation is ready to run: messages are handled after it
SfMicrotask ==
    \/ sf.ready /\ sf.calls # << >>
    \/ sf.task.pc \in {"stop", "position", "go", "done"}

\* if (job.latestInfo && (job.latestInfo.depth == depth ||
\*     job.latestInfo.score.type === 'mate'))
SfDepthReached(info, depth) ==
    info # SfNullInfo /\ (info.depth = depth \/ info.type = "mate")

\* the bestmove callback of analyzePosition: resolve with the latest info,
\* or clear the cache entry and reject
SfBestmoveDoneNoClear(st, j) ==
    LET job == st.jobs[j]
    IN IF SfDepthReached(job.latestInfo, job.key[2])
       THEN [st EXCEPT !.jobs[j].state = "resolved",
                       !.jobs[j].value = job.latestInfo]
       ELSE [st EXCEPT !.jobs[j].state = "rejected"]
SfBestmoveDone(st, j) ==
    LET job == st.jobs[j]
    IN IF SfDepthReached(job.latestInfo, job.key[2])
       THEN [st EXCEPT !.jobs[j].state = "resolved",
                       !.jobs[j].value = job.latestInfo]
       ELSE [st EXCEPT !.analyzeCache[job.key] = 0,
                       !.jobs[j].state = "rejected"]

\* handleMessage of _postMessage, registered while a response is awaited:
\* every line goes to lineCallback, the line that starts with the response
\* removes the listener and goes to doneCallback.  For uciok and readyok
\* the executor of readyPromise goes on: isready is posted, then setoption,
\* and readyPromise is resolved.  A line that arrives while no listener is
\* registered is dropped.
SfOnMessage ==
    /\ ~SfMicrotask
    /\ sf.fromWorker # << >>
    /\ LET line == Head(sf.fromWorker)
           s1 == [sf EXCEPT !.fromWorker = Tail(@)]
       IN sf' =
            CASE sf.listen = "uciok" /\ line.type = "uciok" ->
                    [SfPost(s1, "isready", 0) EXCEPT !.listen = "readyok"]
              [] sf.listen = "readyok" /\ line.type = "readyok" ->
                    [SfPost(s1, "setoption", 0) EXCEPT !.listen = "none", !.ready = TRUE]
              [] sf.listen = "bestmove" /\ line.type = "info" ->
                    [s1 EXCEPT !.jobs[sf.task.job].latestInfo =
                                   [depth |-> line.depth, type |-> line.score]]
              [] sf.listen = "bestmove" /\ line.type = "bestmove" ->
                    [SfBestmoveDone(s1, sf.task.job) EXCEPT !.listen = "none",
                                                            !.task.pc = "done"]
              [] OTHER -> s1
    /\ UNCHANGED << poolVars, moveVars, pgnVars, apiVars, mvProc, argLog, csMove, csCalls, cs, uiVars >>

\* The worker reads its commands in order: uci and isready are answered, go
\* starts a search once no search is running, stop ends a running search
\* with its bestmove line, the other commands print nothing.  A search
\* prints info lines and ends with its bestmove line.
SfWorkerRead ==
    /\ sf.toWorker # << >>
    /\ LET c == Head(sf.toWorker)
           s1 == [sf EXCEPT !.toWorker = Tail(@), !.toDepth = Tail(@)]
       IN /\ c = "go" => sf.search = SfNoSearch
          /\ sf' =
               CASE c = "uci" ->
                       [s1 EXCEPT !.fromWorker = Append(@, SfLine("uciok", 0, "null"))]
                 [] c = "isready" ->
                       [s1 EXCEPT !.fromWorker = Append(@, SfLine("readyok", 0, "null"))]
                 [] c = "go" ->
                       [s1 EXCEPT !.search = [job |-> sf.task.job,
                                              depth |-> Head(sf.toDepth), infos |-> 0]]
                 [] c = "stop" /\ sf.search # SfNoSearch ->
                       [s1 EXCEPT !.fromWorker = Append(@, SfLine("bestmove", 0, "null")),
                                  !.search = SfNoSearch]
                 [] OTHER -> s1
    /\ UNCHANGED << poolVars, moveVars, pgnVars, apiVars, mvProc, argLog, csMove, csCalls, cs, uiVars >>

SfWorkerInfo ==
    /\ sf.search # SfNoSearch
    /\ sf.search.infos < MaxInfos
    /\ \E x \in {sf.search.depth - 1, sf.search.depth}, s \in ScoreTypes :
         sf' = [sf EXCEPT
                  !.fromWorker = Append(@, SfLine("info", x, s)),
                  !.search.infos = @ + 1]
    /\ UNCHANGED << poolVars, moveVars, pgnVars, apiVars, mvProc, argLog, csMove, csCalls, cs, uiVars >>

SfWorkerBestmove ==
    /\ sf.search # SfNoSearch
    /\ sf' = [sf EXCEPT
                 !.fromWorker = Append(@, SfLine("bestmove", 0, "null")),
                 !.search = SfNoSearch]
    /\ UNCHANGED << poolVars, moveVars, pgnVars, apiVars, mvProc, argLog, csMove, csCalls, cs, uiVars >>

\* ------------------------------------------------------ class AsyncQueue
\* AsyncQueue of stockfish-js-engine.js under enqueue and clear calls.  aq
\* holds its fields under their names (clearResolve: the clear call whose
\* promise it resolves, 0 for null), every task enqueued so far with the
\* state of its function and of the promise enqueue returned, the promises
\* of the clear calls, and the task the loop of run is awaiting (cur).
\* A task's function returns a promise that resolves ("ok") or rejects
\* ("rejects") later, or throws in the call ("throws").
MaxQueueCalls == 4    \* enqueue and clear calls in one run
TaskKinds == {"ok", "rejects", "throws"}
AqInit ==
    [ queue |-> << >>, running |-> FALSE, clearRequested |-> FALSE,
      clearResolve |-> 0, tasks |-> << >>, clears |-> << >>, cur |-> 0,
      started |-> << >> ]
AqCalls == Len(aq.tasks) + Len(aq.clears)

\* this.clearResolve(): resolving a resolved promise again does nothing
AqClearResolve(st) ==
    IF st.clearResolve = 0 THEN st
    ELSE [st EXCEPT !.clears[st.clearResolve] = "resolved"]

\* run() from the top of its loop, up to its next await or its end
RECURSIVE AqLoop(_)
AqLoopSkipsCheck(st) ==
    IF st.queue = << >>
    THEN [AqClearResolve(st) EXCEPT !.running = FALSE, !.clearRequested = FALSE,
                                     !.cur = 0]
    ELSE LET t == Head(st.queue)
             s1 == [st EXCEPT !.queue = Tail(@), !.cur = 0]
         IN IF st.tasks[t].kind = "throws"
            THEN AqLoop([s1 EXCEPT !.tasks[t].fn = "thrown",
                                   !.tasks[t].promise = "rejected",
                                   !.started = Append(@, t)])
            ELSE [s1 EXCEPT !.tasks[t].fn = "running", !.cur = t,
                            !.started = Append(@, t)]
AqLoop(st) ==
    IF st.queue = << >>
    THEN [AqClearResolve(st) EXCEPT !.running = FALSE, !.clearRequested = FALSE,
                                     !.cur = 0]
    ELSE LET t == Head(st.queue)
             s1 == [st EXCEPT !.queue = Tail(@), !.cur = 0]
         IN IF st.clearRequested
            THEN AqLoop([s1 EXCEPT !.tasks[t].promise = "rejected",
                                   !.tasks[t].cleared = TRUE])
            ELSE IF st.tasks[t].kind = "throws"
            THEN AqLoop([s1 EXCEPT !.tasks[t].fn = "thrown",
                                   !.tasks[t].promise = "rejected",
                                   !.started = Append(@, t)])
            ELSE [s1 EXCEPT !.tasks[t].fn = "running", !.cur = t,
                            !.started = Append(@, t)]

\* run(): if (this.running) return; this.running = true; then the loop
AqRunAlways(st) == AqLoop([st EXCEPT !.running = TRUE])
AqRun(st) == IF st.running THEN st ELSE AqLoop([st EXCEPT !.running = TRUE])

\* enqueue(asyncFn): push, then run(), which returns at once when the loop
\* is running.  exposed: a clear was requested when the task was enqueued,
\* or was called while it waited.
AqEnqueue(kind) ==
    /\ AqCalls < MaxQueueCalls
    /\ LET t == Len(aq.tasks) + 1
           pushed == [aq EXCEPT
                        !.tasks = Append(@, [kind |-> kind, fn |-> "waiting",
                                             promise |-> "pending", cleared |-> FALSE,
                                             exposed |-> aq.clearRequested]),
                        !.queue = Append(@, t)]
       IN aq' = AqRun(pushed)
    /\ UNCHANGED << poolVars, moveVars, pgnVars, apiVars, composeVars, le, pi, btn, kb, board >>

\* clear()
AqClear ==
    /\ AqCalls < MaxQueueCalls
    /\ LET c == Len(aq.clears) + 1
       IN aq' = IF aq.running
                THEN [aq EXCEPT
                        !.clears = Append(@, "pending"),
                        !.clearRequested = TRUE,
                        !.clearResolve = c,
                        !.tasks = [t \in DOMAIN aq.tasks |->
                                     IF \E i \in DOMAIN aq.queue : aq.queue[i] = t
                                     THEN [aq.tasks[t] EXCEPT !.exposed = TRUE]
                                     ELSE aq.tasks[t]]]
                ELSE [aq EXCEPT
                        !.clears = Append(@, "resolved"),
                        !.clearRequested = FALSE,
                        !.clearResolve = 0]
    /\ UNCHANGED << poolVars, moveVars, pgnVars, apiVars, composeVars, le, pi, btn, kb, board >>

\* the promise that the running task's function returned settles
AqTaskSettles ==
    /\ aq.cur # 0
    /\ aq.tasks[aq.cur].fn = "running"
    /\ aq' = [aq EXCEPT !.tasks[aq.cur].fn =
                            IF aq.tasks[aq.cur].kind = "ok" THEN "resolved" ELSE "rejected"]
    /\ UNCHANGED << poolVars, moveVars, pgnVars, apiVars, composeVars, le, pi, btn, kb, board >>

\* run() after await asyncFn(): resolve(result), or reject(err) in the
\* catch clause; then the loop goes on
AqResume ==
    /\ aq.cur # 0
    /\ aq.tasks[aq.cur].fn \in {"resolved", "rejected"}
    /\ aq' = AqLoop([aq EXCEPT !.tasks[aq.cur].promise = aq.tasks[aq.cur].fn])
    /\ UNCHANGED << poolVars, moveVars, pgnVars, apiVars, composeVars, le, pi, btn, kb, board >>

\* ------------------------------------------------------------ loadEngine
\* loadEngine of stockfish-js-engine.js.  le holds que (the ids of the
\* queued commands, oldest first), every command sent so far (sends: the
\* command, whether send queued it, whether it has a callback, its discard
\* mark, how often its callback was invoked and on which line, whether the
\* setTimeout of a command without reply is pending), and the channel to
\* and from the worker with the worker's search.  A message from the
\* worker is a sequence of lines (joined by "\n" in the code).
MaxSends == 3         \* send and stop_moves calls in one run
LeCommands == {"uci", "isready", "go", "stop", "position", "ucinewgame", "setoption"}

\* send: cmd !== "ucinewgame" && cmd !== "flip" && cmd !== "stop" &&
\* cmd !== "ponderhit" && cmd.substr(0, 8) !== "position" &&
\* cmd.substr(0, 9) !== "setoption"
LeQueued(cmd) ==
    cmd \notin {"ucinewgame", "flip", "stop", "ponderhit", "position", "setoption"}

LeSent(cmd, cb) ==
    [cmd |-> cmd, queued |-> LeQueued(cmd), cb |-> cb, discard |-> FALSE,
     called |-> 0, line |-> "none", timer |-> ~LeQueued(cmd) /\ cb]

\* engine.send(cmd, cb) on the state st
LeSendOn(st, cmd, cb) ==
    LET id == Len(st.sends) + 1
    IN [st EXCEPT !.sends = Append(@, LeSent(cmd, cb)),
                  !.que = IF LeQueued(cmd) THEN Append(@, id) ELSE @,
                  !.toWorker = Append(@, cmd)]

\* the state after loadEngine(path): engine.send('uci'); engine.send('isready')
LeEmpty ==
    [ que |-> << >>, sends |-> << >>, calls |-> 0, toWorker |-> << >>,
      fromWorker |-> << >>, search |-> FALSE, infos |-> 0 ]
LeInit == LeSendOn(LeSendOn(LeEmpty, "uci", FALSE), "isready", FALSE)

LeSend(cmd, cb) ==
    /\ le.calls < MaxSends
    /\ le' = [LeSendOn(le, cmd, cb) EXCEPT !.calls = @ + 1]
    /\ UNCHANGED << poolVars, moveVars, pgnVars, apiVars, composeVars, aq, pi, btn, kb, board >>

\* setTimeout(cb, 0) of a command that is not queued
LeTimer ==
    /\ \E id \in DOMAIN le.sends :
          /\ le.sends[id].timer
          /\ le' = [le EXCEPT !.sends[id].timer = FALSE,
                              !.sends[id].called = @ + 1,
                              !.sends[id].line = "timeout"]
    /\ UNCHANGED << poolVars, moveVars, pgnVars, apiVars, composeVars, aq, pi, btn, kb, board >>

\* engine.stop_moves(): for every queued go that is not yet marked,
\* engine.send("stop") and que[i].discard = true
RECURSIVE LeStopFrom(_, _)
LeStopFrom(st, i) ==
    IF i > Len(st.que) THEN st
    ELSE LET id == st.que[i]
         IN IF st.sends[id].cmd = "go" /\ ~st.sends[id].discard
            THEN LeStopFrom([LeSendOn(st, "stop", FALSE) EXCEPT
                                !.sends[id].discard = TRUE], i + 1)
            ELSE LeStopFrom(st, i + 1)
LeStopMoves ==
    /\ le.calls < MaxSends
    /\ le' = [LeStopFrom(le, 1) EXCEPT !.calls = @ + 1]
    /\ UNCHANGED << poolVars, moveVars, pgnVars, apiVars, composeVars, aq, pi, btn, kb, board >>

\* determine_que_num(line, que): the first queued command whose first word
\* is the type of the line, the first command of all when there is none
LeCmdType(line) ==
    CASE line \in {"uciok", "option"} -> "uci"
      [] line = "readyok" -> "isready"
      [] line \in {"bestmove", "info"} -> "go"
      [] OTHER -> "other"
determine_que_num_first(st, line) == 1
determine_que_num(st, line) ==
    LET match == { i \in DOMAIN st.que : st.sends[st.que[i]].cmd = LeCmdType(line) }
    IN IF match = {} THEN 1
       ELSE CHOOSE i \in match : \A k \in match : i <= k

\* worker.onmessage for one line: lines are dropped while que is empty and
\* when they start with "id "; the line goes to the command it is
\* attributed to; uciok, readyok and bestmove end that command: it leaves
\* que, and its callback is called unless it is missing or discarded.
LeSplice(q, n) == SubSeq(q, 1, n - 1) \o SubSeq(q, n + 1, Len(q))
LeOnLine(st, line) ==
    IF st.que = << >> \/ line = "id" THEN st
    ELSE LET n == determine_que_num(st, line)
             id == st.que[n]
         IN IF line \in {"uciok", "readyok", "bestmove"}
            THEN [st EXCEPT
                    !.que = LeSplice(@, n),
                    !.sends[id].line = line,
                    !.sends[id].called =
                        IF st.sends[id].cb /\ ~st.sends[id].discard THEN @ + 1 ELSE @]
            ELSE st

\* onmessage: a message of several lines is handled line by line
RECURSIVE LeOnLines(_, _)
LeOnLines(st, ls) ==
    IF ls = << >> THEN st ELSE LeOnLines(LeOnLine(st, Head(ls)), Tail(ls))
LeOnMessage ==
    /\ le.fromWorker # << >>
    /\ le' = LeOnLines([le EXCEPT !.fromWorker = Tail(@)], Head(le.fromWorker))
    /\ UNCHANGED << poolVars, moveVars, pgnVars, apiVars, composeVars, aq, pi, btn, kb, board >>

\* The worker reads its commands in order: uci is answered by its id and
\* option lines and uciok, isready by readyok, go starts a search once no
\* search is running, stop ends a running search with its bestmove line,
\* the other commands print nothing.
LeWorkerRead ==
    /\ le.toWorker # << >>
    /\ LET c == Head(le.toWorker)
           s1 == [le EXCEPT !.toWorker = Tail(@)]
       IN /\ c = "go" => ~le.search
          /\ le' =
               CASE c = "uci" ->
                       [s1 EXCEPT !.fromWorker = Append(@, << "id", "option", "uciok" >>)]
                 [] c = "isready" ->
                       [s1 EXCEPT !.fromWorker = Append(@, << "readyok" >>)]
                 [] c = "go" -> [s1 EXCEPT !.search = TRUE, !.infos = 0]
                 [] c = "stop" /\ le.search ->
                       [s1 EXCEPT !.fromWorker = Append(@, << "bestmove" >>),
                                  !.search = FALSE]
                 [] OTHER -> s1
    /\ UNCHANGED << poolVars, moveVars, pgnVars, apiVars, composeVars, aq, pi, btn, kb, board >>

LeWorkerInfo ==
    /\ le.search
    /\ le.infos < MaxInfos
    /\ le' = [le EXCEPT !.fromWorker = Append(@, << "info" >>), !.infos = @ + 1]
    /\ UNCHANGED << poolVars, moveVars, pgnVars, apiVars, composeVars, aq, pi, btn, kb, board >>

LeWorkerBestmove ==
    /\ le.search
    /\ le' = [le EXCEPT !.fromWorker = Append(@, << "bestmove" >>), !.search = FALSE]
    /\ UNCHANGED << poolVars, moveVars, pgnVars, apiVars, composeVars, aq, pi, btn, kb, board >>

\* ------------------------------------------------------- worker.onmessage
OnUciok ==
    /\ NoReady
    /\ fromWorker # << >>
    /\ Head(fromWorker).type = "uciok"
    /\ Head(fromWorker).more = << >>
    /\ fromWorker' = Tail(fromWorker)
    /\ resolved' = resolved \cup {postResolver}
    /\ UNCHANGED << cache, queue, jobs, busy, current, lastAnalyzeInfo,
                    currentAnalyzeFen, postPromise, postResolver, promises, procs,
                    toWorker, search, infosSent, calls, stops, boundLog, settleLog >>
    /\ UNCHANGED << moveVars, pgnVars, apiVars, composeVars, uiVars >>

OnReadyok ==
    /\ NoReady
    /\ fromWorker # << >>
    /\ Head(fromWorker).type = "readyok"
    /\ Head(fromWorker).more = << >>
    /\ fromWorker' = Tail(fromWorker)
    /\ resolved' = resolved \cup {postResolver}
    /\ UNCHANGED << cache, queue, jobs, busy, current, lastAnalyzeInfo,
                    currentAnalyzeFen, postPromise, postResolver, promises, procs,
                    toWorker, search, infosSent, calls, stops, boundLog, settleLog >>
    /\ UNCHANGED << moveVars, pgnVars, apiVars, composeVars, uiVars >>

\* text.startsWith('info '): parseInfoLine(text) on the whole message.  It
\* reads each field after the first occurrence of its key, and every info
\* line the engine prints carries depth, multipv and score: the record is
\* that of the first line.
ParseMessage(m) == m.info

OnInfo ==
    /\ NoReady
    /\ fromWorker # << >>
    /\ Head(fromWorker).type = "info"
    /\ fromWorker' = Tail(fromWorker)
    /\ IF current.job # 0
       THEN /\ lastAnalyzeInfo' = ParseMessage(Head(fromWorker))
            /\ current' = IF ParseMessage(Head(fromWorker)).multipv = 1
                          THEN [current EXCEPT !.lastInfo = ParseMessage(Head(fromWorker))]
                          ELSE current
       ELSE UNCHANGED << lastAnalyzeInfo, current >>
    /\ UNCHANGED << cache, queue, jobs, busy, currentAnalyzeFen, postPromise,
                    postResolver, resolved, promises, procs, toWorker, search,
                    infosSent, calls, stops, boundLog, settleLog >>
    /\ UNCHANGED << moveVars, pgnVars, apiVars, composeVars, uiVars >>

\* A message that starts with uciok or readyok and goes on with further
\* lines: text equals neither word and starts with neither 'info ' nor
\* 'bestmove'; no branch is taken.
OnOther ==
    /\ NoReady
    /\ fromWorker # << >>
    /\ Head(fromWorker).type \in {"uciok", "readyok"}
    /\ Head(fromWorker).more # << >>
    /\ fromWorker' = Tail(fromWorker)
    /\ UNCHANGED << cache, queue, jobs, busy, current, lastAnalyzeInfo,
                    currentAnalyzeFen, postPromise, postResolver, resolved,
                    promises, procs, toWorker, search, infosSent, calls, stops,
                    boundLog, settleLog >>
    /\ UNCHANGED << moveVars, pgnVars, apiVars, composeVars, uiVars >>

\* const d = finalResult.info?.depth ?? current.job.depth
CacheWriteDepth(info, jobDepth) == IF info = NullInfo THEN jobDepth ELSE info.depth

\* busy = false after a job's bestmove
BusyAfterBestmoveStuck == TRUE
BusyAfterBestmove == FALSE

OnBestmove ==
    /\ NoReady
    /\ fromWorker # << >>
    /\ Head(fromWorker).type = "bestmove"
    /\ fromWorker' = Tail(fromWorker)
    /\ resolved' = resolved \cup {postResolver}
    /\ IF current.job # 0
       THEN LET j == current.job
                finalResult == makeSnapshot(lastAnalyzeInfo, j, currentAnalyzeFen)
                d == CacheWriteDepth(finalResult.info, jobs[j].depth)
            IN /\ cache' = [cache EXCEPT ![finalResult.fen][d] = ResultEntry(finalResult)]
               /\ lastAnalyzeInfo' = NullInfo
               /\ currentAnalyzeFen' = NullFen
               /\ SetMain(dispatch([ResolveJob(Main, j, finalResult) EXCEPT
                                       !.jobs[j].final = finalResult,
                                       !.current = NoCurrent,
                                       !.busy = BusyAfterBestmove]))
       ELSE UNCHANGED << cache, lastAnalyzeInfo, currentAnalyzeFen, queue, busy,
                         current, jobs, toWorker, procs, boundLog, settleLog >>
    /\ UNCHANGED << postPromise, postResolver, promises, search, infosSent,
                    calls, stops >>
    /\ UNCHANGED << moveVars, pgnVars, apiVars, composeVars, uiVars >>

\* ----------------------------------------------------------------- worker
\* The engine reads its commands in order.  uci and isready are answered;
\* go starts a search that prints info lines and then one bestmove; stop
\* ends a running search; a command other than stop and isready waits for
\* a running search to end.
WorkerUci ==
    /\ ~terminated
    /\ toWorker # << >> /\ Head(toWorker).cmd = "uci" /\ search = 0
    /\ toWorker' = Tail(toWorker)
    /\ fromWorker' = Append(fromWorker, Msg("uciok", NullInfo))
    /\ UNCHANGED << search, infosSent >>
    /\ UNCHANGED << mainVars, moveVars, pgnVars, apiVars, composeVars, uiVars >>

WorkerIsready ==
    /\ ~terminated
    /\ toWorker # << >> /\ Head(toWorker).cmd = "isready"
    /\ toWorker' = Tail(toWorker)
    /\ fromWorker' = Append(fromWorker, [Msg("readyok", NullInfo) EXCEPT
                                        !.of = Head(toWorker).job])
    /\ UNCHANGED << search, infosSent >>
    /\ UNCHANGED << mainVars, moveVars, pgnVars, apiVars, composeVars, uiVars >>

WorkerSilent ==
    /\ ~terminated
    /\ toWorker # << >>
    /\ Head(toWorker).cmd \in {"setoption", "ucinewgame", "position"}
    /\ search = 0
    /\ toWorker' = Tail(toWorker)
    /\ UNCHANGED << fromWorker, search, infosSent >>
    /\ UNCHANGED << mainVars, moveVars, pgnVars, apiVars, composeVars, uiVars >>

WorkerGo ==
    /\ ~terminated
    /\ toWorker # << >> /\ Head(toWorker).cmd = "go" /\ search = 0
    /\ toWorker' = Tail(toWorker)
    /\ search' = Head(toWorker).arg
    /\ infosSent' = 0
    /\ UNCHANGED fromWorker
    /\ UNCHANGED << mainVars, moveVars, pgnVars, apiVars, composeVars, uiVars >>

WorkerStop ==
    /\ ~terminated
    /\ toWorker # << >> /\ Head(toWorker).cmd = "stop"
    /\ toWorker' = Tail(toWorker)
    /\ IF search # 0
       THEN /\ fromWorker' = Append(fromWorker, Msg("bestmove", NullInfo))
            /\ search' = 0
       ELSE UNCHANGED << fromWorker, search >>
    /\ UNCHANGED infosSent
    /\ UNCHANGED << mainVars, moveVars, pgnVars, apiVars, composeVars, uiVars >>

WorkerInfo ==
    /\ ~terminated
    /\ search # 0
    /\ infosSent < MaxInfos
    /\ \E i \in InfoLines(search) :
           fromWorker' = Append(fromWorker, Msg("info", i))
    /\ infosSent' = infosSent + 1
    /\ UNCHANGED << toWorker, search >>
    /\ UNCHANGED << mainVars, moveVars, pgnVars, apiVars, composeVars, uiVars >>

WorkerBestmove ==
    /\ ~terminated
    /\ search # 0
    /\ fromWorker' = Append(fromWorker, Msg("bestmove", NullInfo))
    /\ search' = 0
    /\ UNCHANGED << toWorker, infosSent >>
    /\ UNCHANGED << mainVars, moveVars, pgnVars, apiVars, composeVars, uiVars >>

\* The channel delivers a line in one message with the line printed before
\* it, joined by a newline, when that message is not yet delivered.
LinesOf(m) == << [Line(m.type, m.info) EXCEPT !.of = m.of] >> \o m.more
ChannelJoin ==
    /\ ~terminated
    /\ Len(fromWorker) >= 2
    /\ LET n == Len(fromWorker)
           a == fromWorker[n - 1]
           b == fromWorker[n]
       IN /\ Len(LinesOf(a)) + Len(LinesOf(b)) <= MaxChunk
          /\ fromWorker' = Append(SubSeq(fromWorker, 1, n - 2),
                                  [a EXCEPT !.more = a.more \o LinesOf(b)])
    /\ UNCHANGED << toWorker, search, infosSent >>
    /\ UNCHANGED << mainVars, moveVars, pgnVars, apiVars, composeVars, uiVars >>

\* the engine's steps when no stop command is ever posted
WorkerSearch ==
    \/ WorkerUci \/ WorkerIsready \/ WorkerSilent \/ WorkerGo
    \/ WorkerInfo \/ WorkerBestmove
Worker == WorkerSearch \/ WorkerStop

\* ------------------------------------------------- JavaScript Number
\* analyzeMove computes with JavaScript Numbers: IEEE-754 binary64, every
\* operation rounded to nearest, ties to even.  A Number is modelled by its
\* exact value: a sign and a magnitude in units of 2^-FracBits, the
\* magnitude as a sequence of Limbs limbs of LimbBits bits, lowest first.
\* The grid is fine enough for every quotient cp / 100 with 1 <= |cp| < 4096
\* and for every sum and difference of two of them.
MantissaBits == 53
FracBits == 61
LimbBits == 16
Limbs == 5
Base == 2 ^ LimbBits
Zeros == [i \in 1..Limbs |-> 0]
Abs(n) == IF n < 0 THEN -n ELSE n

\* bit i (from 1, lowest) of a magnitude
Bit(mag, i) == (mag[((i - 1) \div LimbBits) + 1] \div (2 ^ ((i - 1) % LimbBits))) % 2

\* the magnitude n * 2^FracBits for 0 <= n < 4096
Scaled(n) ==
    LET lo == (FracBits \div LimbBits) + 1
        x == n * (2 ^ (FracBits % LimbBits))
    IN [i \in 1..Limbs |-> IF i = lo THEN x % Base
                           ELSE IF i = lo + 1 THEN x \div Base
                           ELSE 0]

\* position of the highest set bit, 0 for zero
Msb(mag) ==
    LET S == {i \in 1..Limbs : mag[i] # 0}
    IN IF S = {} THEN 0
       ELSE LET t == CHOOSE i \in S : \A k \in S : k <= i
                n == CHOOSE k \in 1..LimbBits : 2 ^ (k - 1) <= mag[t] /\ mag[t] < 2 ^ k
            IN (t - 1) * LimbBits + n

\* the magnitude with its lowest cut bits cleared
ClearLow(mag, cut) ==
    [i \in 1..Limbs |->
        IF i * LimbBits <= cut THEN 0
        ELSE IF (i - 1) * LimbBits >= cut THEN mag[i]
        ELSE mag[i] - (mag[i] % (2 ^ (cut - (i - 1) * LimbBits)))]

\* add v to limb i, carrying upwards
RECURSIVE AddLimb(_, _, _)
AddLimb(mag, i, v) ==
    IF i > Limbs THEN mag
    ELSE IF mag[i] + v < Base THEN [mag EXCEPT ![i] = mag[i] + v]
    ELSE AddLimb([mag EXCEPT ![i] = mag[i] + v - Base], i + 1, 1)

\* Round a magnitude to MantissaBits significant bits, to nearest, ties to
\* even; sticky tells that the exact value lies above the magnitude given.
RoundNearestEven(mag, sticky) ==
    LET cut == Msb(mag) - MantissaBits
    IN IF cut <= 0 THEN mag
       ELSE LET st == sticky \/ ClearLow(mag, cut - 1) # mag
            IN IF Bit(mag, cut) = 1 /\ (st \/ Bit(mag, cut + 1) = 1)
               THEN AddLimb(ClearLow(mag, cut), (cut \div LimbBits) + 1,
                            2 ^ (cut % LimbBits))
               ELSE ClearLow(mag, cut)

\* long division by 100, highest limb first: quotient and remainder
RECURSIVE Div100(_, _, _, _)
Div100(num, i, r, q) ==
    IF i = 0 THEN [q |-> q, r |-> r]
    ELSE Div100(num, i - 1, (r * Base + num[i]) % 100,
                [q EXCEPT ![i] = (r * Base + num[i]) \div 100])

Canon(neg, mag) == [neg |-> neg /\ mag # Zeros, mag |-> mag]

\* value / 100 for an integer value
DivBy100(cp) ==
    LET d == Div100(Scaled(Abs(cp)), Limbs, 0, Zeros)
    IN Canon(cp < 0, RoundNearestEven(d.q, d.r # 0))

MagLess(a, b) ==
    LET D == {i \in 1..Limbs : a[i] # b[i]}
    IN D # {} /\ LET t == CHOOSE i \in D : \A k \in D : k <= i IN a[t] < b[t]

RECURSIVE MagAdd(_, _, _, _, _)
MagAdd(a, b, i, carry, acc) ==
    IF i > Limbs THEN acc
    ELSE MagAdd(a, b, i + 1, (a[i] + b[i] + carry) \div Base,
                [acc EXCEPT ![i] = (a[i] + b[i] + carry) % Base])

\* a - b for a >= b
RECURSIVE MagSub(_, _, _, _, _)
MagSub(a, b, i, borrow, acc) ==
    IF i > Limbs THEN acc
    ELSE MagSub(a, b, i + 1, IF a[i] - b[i] - borrow < 0 THEN 1 ELSE 0,
                [acc EXCEPT ![i] = (a[i] - b[i] - borrow + Base) % Base])

\* unary minus
Negate(x) == Canon(~x.neg, x.mag)

\* x + y
NumAdd(x, y) ==
    IF x.neg = y.neg
    THEN Canon(x.neg, RoundNearestEven(MagAdd(x.mag, y.mag, 1, 0, Zeros), FALSE))
    ELSE IF MagLess(x.mag, y.mag)
         THEN Canon(y.neg, RoundNearestEven(MagSub(y.mag, x.mag, 1, 0, Zeros), FALSE))
         ELSE Canon(x.neg, RoundNearestEven(MagSub(x.mag, y.mag, 1, 0, Zeros), FALSE))

\* x - y
NumSub(x, y) == NumAdd(x, Negate(y))

\* x <= y
NumLeq(x, y) ==
    IF x.neg # y.neg THEN x.neg
    ELSE IF x.neg THEN ~MagLess(x.mag, y.mag)
    ELSE ~MagLess(y.mag, x.mag)

\* x >= y
NumGeq(x, y) == NumLeq(y, x)

\* ---------------------------------------------------------- parseInfoLine
\* The line is given as its tokens, text.trim().split(/\s+/).  Number(token)
\* is finite exactly for the tokens of NumberOf.
Undefined == [def |-> FALSE, n |-> 0]
Num(n) == [def |-> TRUE, n |-> n]
NumberOf == [t \in {"-80", "-20", "15", "20", "70", "1", "2", "3", "12", "0x10"} |->
               CASE t = "-80" -> -80 [] t = "-20" -> -20 [] t = "15" -> 15
                 [] t = "20" -> 20 [] t = "70" -> 70 [] t = "1" -> 1
                 [] t = "2" -> 2 [] t = "3" -> 3 [] t = "12" -> 12
                 [] t = "0x10" -> 16]
NumberNaNIsZero(t) == IF t \in DOMAIN NumberOf THEN Num(NumberOf[t]) ELSE Num(0)
Number(t) == IF t \in DOMAIN NumberOf THEN Num(NumberOf[t]) ELSE Undefined

\* tokens.indexOf(key), counted from 1; 0 when absent
IndexOf(tokens, key) ==
    LET S == {i \in DOMAIN tokens : tokens[i] = key}
    IN IF S = {} THEN 0 ELSE CHOOSE i \in S : \A k \in S : i <= k

getNum(tokens, key) ==
    LET i == IndexOf(tokens, key)
    IN IF i > 0 /\ i + 1 <= Len(tokens) THEN Number(tokens[i + 1]) ELSE Undefined

NoScore == [type |-> "undefined", value |-> 0]
parseScore(tokens) ==
    LET si == IndexOf(tokens, "score")
    IN IF si > 0 /\ si + 2 <= Len(tokens)
       THEN IF tokens[si + 1] \in {"cp", "mate"} /\ Number(tokens[si + 2]).def
            THEN [type |-> tokens[si + 1], value |-> Number(tokens[si + 2]).n]
            ELSE NoScore
       ELSE NoScore

parsePv(tokens) ==
    LET pvi == IndexOf(tokens, "pv")
    IN IF pvi > 0 /\ pvi + 1 <= Len(tokens)
       THEN SubSeq(tokens, pvi + 1, Len(tokens))
       ELSE << >>

parseInfoLine(tokens) ==
    [depth |-> getNum(tokens, "depth"),
     seldepth |-> getNum(tokens, "seldepth"),
     multipv |-> IF getNum(tokens, "multipv").def THEN getNum(tokens, "multipv") ELSE Num(1),
     nodes |-> getNum(tokens, "nodes"),
     nps |-> getNum(tokens, "nps"),
     time |-> getNum(tokens, "time"),
     score |-> parseScore(tokens),
     pv |-> parsePv(tokens)]

\* parseInfoLine applied to every line of at most MaxTokens tokens over
\* ParseTokens: keys, score types, numbers (decimal and hexadecimal) and a
\* token whose Number() is not finite
MaxTokens == 4        \* tokens in a line
ParseTokens == {"depth", "multipv", "score", "cp", "mate", "pv", "12", "0x10", "Infinity"}
RECURSIVE TokenSeqs(_)
TokenSeqs(n) ==
    IF n = 0 THEN {<< >>}
    ELSE TokenSeqs(n - 1) \cup
         { Append(l, t) : l \in { x \in TokenSeqs(n - 1) : Len(x) = n - 1 }, t \in ParseTokens }
ParseIdle == pi = [tokens |-> << >>, returned |-> FALSE, out |-> parseInfoLine(<< >>)]
ParseInit ==
    \E l \in TokenSeqs(MaxTokens) :
        pi = [tokens |-> l, returned |-> FALSE, out |-> parseInfoLine(<< >>)]
ParseCall ==
    /\ ~pi.returned
    /\ pi' = [pi EXCEPT !.returned = TRUE, !.out = parseInfoLine(pi.tokens)]
    /\ UNCHANGED << poolVars, moveVars, pgnVars, apiVars, composeVars, aq, le, btn, kb, board >>

\* ------------------------------------------------------------- buttons.js
\* The four buttons of the display: long press detection (buttons.js) on
\* top of getKey (part_000).  The 300 ms of LONG_PRESS_DURATION are the
\* time between a timer's start and the step that fires it; a keyup may
\* come before or after that step.
MaxKeyEvents == 6     \* events handled in one run
Buttons == 0..3
\* the keys the runs press, by keyCode: both keys of button 0 ('1' and
\* ArrowLeft), one key of button 1 ('2') and a key of no button (Enter)
PressKeys == {49, 37, 50, 13}
\* String.fromCharCode on the codes of the digits, the code itself otherwise
fromCharCode(c) ==
    CASE c = 49 -> "1" [] c = 50 -> "2" [] c = 51 -> "3" [] c = 52 -> "4"
      [] OTHER -> "other"
\* e.key of the events of a key, in a browser that sets it
KeyName(c) ==
    CASE c = 37 -> "ArrowLeft" [] c = 38 -> "ArrowUp" [] c = 39 -> "ArrowRight"
      [] c = 40 -> "ArrowDown" [] c = 13 -> "Enter"
      [] OTHER -> fromCharCode(c)
\* an event of key c; key is "" where the browser does not set e.key
KeyEvents(c) ==
    { [keyCode |-> c, key |-> n, repeat |-> r] : n \in {"", KeyName(c)}, r \in BOOLEAN }
getKey(e) ==
    IF e.key # "" THEN e.key
    ELSE CASE e.keyCode = 37 -> "ArrowLeft"
           [] e.keyCode = 38 -> "ArrowUp"
           [] e.keyCode = 39 -> "ArrowRight"
           [] e.keyCode = 40 -> "ArrowDown"
           [] e.keyCode = 13 -> "Enter"
           [] e.keyCode = 27 -> "Escape"
           [] e.keyCode = 8 -> "Backspace"
           [] OTHER -> fromCharCode(e.keyCode)
NullIndex == -1       \* the null of getButtonIndexFromKey
getButtonIndexFromKey(key) ==
    CASE key \in {"1", "ArrowLeft"} -> 0
      [] key \in {"2", "ArrowUp"} -> 1
      [] key \in {"3", "ArrowDown"} -> 2
      [] key \in {"4", "ArrowRight"} -> 3
      [] OTHER -> NullIndex

\* buttonFunctions: for each button whether short and long are functions
NoHandlers == [i \in Buttons |-> [short |-> FALSE, long |-> FALSE]]
HandlerSets ==
    { [i \in Buttons |-> [short |-> TRUE, long |-> TRUE]],
      [i \in Buttons |-> [short |-> TRUE, long |-> (i = 1)]] }
NoEvent == [type |-> "none", keyCode |-> 0, repeat |-> FALSE]
\* down = buttonDown, timers = a timer of buttonTimers is pending, fns =
\* buttonFunctions.  History: held = the keys that are down on the
\* keyboard, invoked[c] = the handlers of the button of key c called since
\* the last keydown of c and up to its keyup (the last two of them), last
\* = the event of the last step, events = the number of steps.
ButtonsInit ==
    [down |-> [i \in Buttons |-> FALSE],
     timers |-> [i \in Buttons |-> FALSE],
     fns |-> NoHandlers,
     held |-> {},
     invoked |-> [c \in PressKeys |-> << >>],
     last |-> NoEvent,
     events |-> 0]
\* the handler h of button i is called: every key of the button that is
\* held has it called during its press
Invoke(st, i, h) ==
    [st EXCEPT !.invoked = [c \in PressKeys |->
        IF c \in st.held /\ getButtonIndexFromKey(KeyName(c)) = i
        THEN IF Len(@[c]) < 2 THEN Append(@[c], h) ELSE << @[c][2], h >>
        ELSE @[c]]]
\* clearButtonTimer(buttonIndex)
clearButtonTimer(st, i) == [st EXCEPT !.timers[i] = FALSE]
\* startButtonTimer(buttonIndex): the callback is TimerFires
startButtonTimer(st, i) == [clearButtonTimer(st, i) EXCEPT !.timers[i] = TRUE]
\* the keydown listener
Keydown(st, e) ==
    LET index == getButtonIndexFromKey(getKey(e))
    IN IF e.repeat THEN st
       ELSE IF index = NullIndex \/ st.down[index] THEN st
       ELSE startButtonTimer([st EXCEPT !.down[index] = TRUE], index)
\* the keyup listener
Keyup(st, e) ==
    LET index == getButtonIndexFromKey(getKey(e))
    IN IF index = NullIndex THEN st
       ELSE [(IF st.timers[index]
              THEN IF st.fns[index].short
                   THEN Invoke(clearButtonTimer(st, index), index, "short")
                   ELSE clearButtonTimer(st, index)
              ELSE st)
             EXCEPT !.down[index] = FALSE]
\* the callback of the timer of startButtonTimer
TimerFires(st, i) ==
    [(IF st.fns[i].long THEN Invoke(st, i, "long") ELSE st)
     EXCEPT !.timers[i] = FALSE]

ButtonStep(st, type, c, r) ==
    [st EXCEPT !.last = [type |-> type, keyCode |-> c, repeat |-> r],
               !.events = @ + 1]
\* a key goes down, or repeats while it is held
KeydownEvent ==
    /\ btn.events < MaxKeyEvents
    /\ \E c \in PressKeys : \E e \in KeyEvents(c) :
        /\ e.repeat <=> c \in btn.held
        /\ btn' = ButtonStep(
                    Keydown([btn EXCEPT !.held = @ \cup {c},
                                        !.invoked[c] = IF e.repeat THEN @ ELSE << >>], e),
                    "keydown", c, e.repeat)
    /\ UNCHANGED << poolVars, moveVars, pgnVars, apiVars, composeVars, aq, le, pi, kb, board >>
\* a key that is held goes up
KeyupEvent ==
    /\ btn.events < MaxKeyEvents
    /\ \E c \in btn.held : \E e \in KeyEvents(c) :
        /\ ~e.repeat
        /\ btn' = ButtonStep([Keyup(btn, e) EXCEPT !.held = @ \ {c}], "keyup", c, FALSE)
    /\ UNCHANGED << poolVars, moveVars, pgnVars, apiVars, composeVars, aq, le, pi, kb, board >>
\* LONG_PRESS_DURATION after its start a pending timer fires
TimerEvent ==
    /\ btn.events < MaxKeyEvents
    /\ \E i \in Buttons :
        /\ btn.timers[i]
        /\ btn' = ButtonStep(TimerFires(btn, i), "timer", i, FALSE)
    /\ UNCHANGED << poolVars, moveVars, pgnVars, apiVars, composeVars, aq, le, pi, kb, board >>
\* buttonsUpdate(newButtonFunctions), called by a view
buttonsUpdate ==
    /\ btn.events < MaxKeyEvents
    /\ \E f \in HandlerSets :
        /\ f # btn.fns
        /\ btn' = ButtonStep([btn EXCEPT !.fns = f], "update", 0, FALSE)
    /\ UNCHANGED << poolVars, moveVars, pgnVars, apiVars, composeVars, aq, le, pi, kb, board >>
NextButtons == KeydownEvent \/ KeyupEvent \/ TimerEvent \/ buttonsUpdate

\* ----------------------------------------------------------- keyboards.js
\* The virtual keyboard: three layouts and the four moves of the selected
\* key.  Rows and columns count from 0 as in the code.
keyboardLayoutNormal ==
    << << "1", "2", "3", "4", "5", "6", "7", "8", "9", "0" >>,
       << "q", "w", "e", "r", "t", "y", "u", "i", "o", "p" >>,
       << "a", "s", "d", "f", "g", "h", "j", "k", "l", "-" >>,
       << "z", "x", "c", "v", "b", "n", "m", "_", ".", "@" >>,
       << "?!@", "", "SPACE", "", "DEL", "", "CLEAR", "", "DONE", "" >> >>
keyboardLayoutUppercase ==
    << << "!", "@", "#", "$", "%", "^", "&", "*", "(", ")" >>,
       << "Q", "W", "E", "R", "T", "Y", "U", "I", "O", "P" >>,
       << "A", "S", "D", "F", "G", "H", "J", "K", "L", "+" >>,
       << "Z", "X", "C", "V", "B", "N", "M", "{", "}", "?" >>,
       << "?!@", "", "SPACE", "", "DEL", "", "CLEAR", "", "DONE", "" >> >>
keyboardLayoutNumber ==
    << << "1", "2", "3" >>,
       << "4", "5", "6" >>,
       << "7", "8", "9" >>,
       << "0", "DEL", "DONE" >> >>
KeyboardLayouts == {keyboardLayoutNormal, keyboardLayoutUppercase, keyboardLayoutNumber}
\* a move skips at most this many keys: the columns of a row are walked
\* cyclically, so a walk that has not met a key after as many steps as the
\* longest row has columns never meets one
MaxSkips == 10
\* currentKeyboardLayout[row].length
RowLength(layout, row) == Len(layout[row + 1])
\* currentKeyboardLayout[row][col]; no key of a layout is 'undefined'
KeyAt(layout, row, col) ==
    IF row + 1 \in DOMAIN layout /\ col + 1 \in DOMAIN layout[row + 1]
    THEN layout[row + 1][col + 1] ELSE "undefined"
\* keyboardGetSelectedKey()
keyboardGetSelectedKey(st) == KeyAt(st.layout, st.row, st.col)
\* layout = currentKeyboardLayout, row = keyboardRow, col = keyboardCol.
\* History: move = the last move called, calls = the calls of move
\* functions it made, itself included, returned = it came back.
KeyboardAt(layout) ==
    [layout |-> layout, row |-> 0, col |-> 0, move |-> "none", calls |-> 0,
     returned |-> TRUE]
KeyboardIdle == KeyboardAt(keyboardLayoutNormal)
\* a call finds an empty key and calls again, unless it is call MaxSkips + 1
Skip(st) == st.calls <= MaxSkips

RECURSIVE keyboardMoveRight(_)
keyboardMoveRight(st) ==
    LET moved == [st EXCEPT !.col = (st.col + 1) % RowLength(st.layout, st.row),
                            !.calls = @ + 1]
    IN IF keyboardGetSelectedKey(moved) = ""
       THEN IF Skip(moved) THEN keyboardMoveRight(moved)
            ELSE [moved EXCEPT !.returned = FALSE]
       ELSE moved
RECURSIVE keyboardMoveLeft(_)
keyboardMoveLeft(st) ==
    LET moved == [st EXCEPT !.col = (st.col - 1 + RowLength(st.layout, st.row))
                                        % RowLength(st.layout, st.row),
                            !.calls = @ + 1]
    IN IF keyboardGetSelectedKey(moved) = ""
       THEN IF Skip(moved) THEN keyboardMoveLeft(moved)
            ELSE [moved EXCEPT !.returned = FALSE]
       ELSE moved
keyboardMoveUp(st) ==
    LET row == (st.row - 1 + Len(st.layout)) % Len(st.layout)
        moved == [st EXCEPT !.row = row,
                            !.col = Min(st.col, RowLength(st.layout, row) - 1),
                            !.calls = @ + 1]
    IN IF keyboardGetSelectedKey(moved) = "" THEN keyboardMoveLeft(moved) ELSE moved
\* a keyboardMoveDown that stays on an empty key
keyboardMoveDownStays(st) ==
    LET row == (st.row + 1) % Len(st.layout)
    IN [st EXCEPT !.row = row,
                  !.col = Min(st.col, RowLength(st.layout, row) - 1),
                  !.calls = @ + 1]
keyboardMoveDown(st) ==
    LET row == (st.row + 1) % Len(st.layout)
        moved == [st EXCEPT !.row = row,
                            !.col = Min(st.col, RowLength(st.layout, row) - 1),
                            !.calls = @ + 1]
    IN IF keyboardGetSelectedKey(moved) = "" THEN keyboardMoveLeft(moved) ELSE moved

\* a move is called after the last one returned
KeyboardCall(move) == [kb EXCEPT !.move = move, !.calls = 0]
MoveRightCall ==
    /\ kb.returned
    /\ kb' = keyboardMoveRight(KeyboardCall("right"))
    /\ UNCHANGED << poolVars, moveVars, pgnVars, apiVars, composeVars, aq, le, pi, btn, board >>
MoveLeftCall ==
    /\ kb.returned
    /\ kb' = keyboardMoveLeft(KeyboardCall("left"))
    /\ UNCHANGED << poolVars, moveVars, pgnVars, apiVars, composeVars, aq, le, pi, btn, board >>
MoveUpCall ==
    /\ kb.returned
    /\ kb' = keyboardMoveUp(KeyboardCall("up"))
    /\ UNCHANGED << poolVars, moveVars, pgnVars, apiVars, composeVars, aq, le, pi, btn, board >>
MoveDownCall ==
    /\ kb.returned
    /\ kb' = keyboardMoveDown(KeyboardCall("down"))
    /\ UNCHANGED << poolVars, moveVars, pgnVars, apiVars, composeVars, aq, le, pi, btn, board >>
NextKeyboard == MoveRightCall \/ MoveLeftCall \/ MoveUpCall \/ MoveDownCall

\* ---------------------------------------------------------- chessboard.js
\* The on-screen board: 64 squares, each with at most one piece, and the
\* drag of a piece from dragstart to dragend.
MaxDrags == 3         \* drag gestures in one run
Squares == 0..63
NoSquare == -1        \* no square: nothing is dragged, nothing is a drop target
\* the squares the runs put pieces on and drop on: a1, b1, a2 and h8
DragSquares == {0, 1, 8, 63}
\* the symbols of the pieces, by the names the code gives them
Pieces == {"White King", "White Pawn", "Black King", "Black Pawn"}
getPieceColor(piece) ==
    CASE piece \in {"White King", "White Queen", "White Rook", "White Bishop",
                    "White Knight", "White Pawn"} -> "white"
      [] piece \in {"Black King", "Black Queen", "Black Rook", "Black Bishop",
                    "Black Knight", "Black Pawn"} -> "black"
      [] OTHER -> "none"
NothingSent == [squares |-> << >>, colors |-> [s \in Squares |-> "unset"]]
\* squares[s] = innerHTML of the .chess-piece of square s, "" without one;
\* dragging = the square of the piece with class dragging; target = the
\* square with class drop-target; sent = the data of the last
\* SquarePieceStateChangeEvent.  History: drags = gestures started, before
\* = squares at the last dragstart, drop = how the last gesture ended.
BoardWith(squares) ==
    [squares |-> squares, dragging |-> NoSquare, target |-> NoSquare,
     sent |-> NothingSent, drags |-> 0, before |-> squares, drop |-> "none"]
EmptyBoard == [s \in Squares |-> ""]
BoardIdle == BoardWith(EmptyBoard)
\* the positions updateBoardFromFen has put on the board: a king and at
\* most one more piece on the squares of DragSquares
BoardPositions ==
    { [s \in Squares |-> IF s = a THEN "White King"
                         ELSE IF s = b THEN p ELSE ""] :
        a \in DragSquares, b \in DragSquares \ {0}, p \in Pieces \cup {""} }

\* _sendBoardState(updatedSquare)
sendBoardState(st, updatedSquare) ==
    [st EXCEPT !.sent =
        [squares |-> << updatedSquare >>,
         colors |-> [s \in Squares |->
            IF st.squares[s] = "" THEN "null"
            ELSE IF st.dragging = s THEN "null"
            ELSE getPieceColor(st.squares[s])]]]
\* _dragstartHandler on the piece of square from
dragstartHandler(st, from) ==
    LET marked == [st EXCEPT !.dragging = from]
    IN IF from < 64 THEN sendBoardState(marked, from) ELSE marked
\* _dragendHandler on the dragged piece
dragendHandler(st) ==
    LET from == st.dragging
        to == st.target
        cleared == [st EXCEPT !.target = NoSquare, !.dragging = NoSquare]
    IN IF to = NoSquare THEN sendBoardState(cleared, from)
       ELSE IF cleared.squares[to] # "" /\ to # from THEN cleared
       ELSE IF to < 64
            THEN sendBoardState(
                    [cleared EXCEPT !.squares =
                        [[@ EXCEPT ![from] = ""] EXCEPT ![to] = st.squares[from]]], to)
            ELSE [cleared EXCEPT !.squares[from] = ""]
\* how a gesture ends, by the square under the pointer at its dragend
DropKind(st) ==
    IF st.target = NoSquare THEN "outside"
    ELSE IF st.target = st.dragging THEN "origin"
    ELSE IF st.squares[st.target] # "" THEN "occupied"
    ELSE "empty"

\* the user starts to drag the piece of a square
DragStart ==
    /\ board.dragging = NoSquare
    /\ board.drags < MaxDrags
    /\ \E from \in Squares :
        /\ board.squares[from] # ""
        /\ board' = dragstartHandler(
                        [board EXCEPT !.drags = @ + 1, !.before = board.squares,
                                      !.drop = "none"], from)
    /\ UNCHANGED << poolVars, moveVars, pgnVars, apiVars, composeVars, aq, le, pi, btn, kb >>
\* _dragOverHandler: the pointer is over a square during the drag
DragOver ==
    /\ board.dragging # NoSquare
    /\ board.target = NoSquare
    /\ \E s \in DragSquares : board' = [board EXCEPT !.target = s]
    /\ UNCHANGED << poolVars, moveVars, pgnVars, apiVars, composeVars, aq, le, pi, btn, kb >>
\* _dragLeaveHandler: the pointer leaves the square it was over
DragLeave ==
    /\ board.dragging # NoSquare
    /\ board.target # NoSquare
    /\ board' = [board EXCEPT !.target = NoSquare]
    /\ UNCHANGED << poolVars, moveVars, pgnVars, apiVars, composeVars, aq, le, pi, btn, kb >>
\* the user lets the piece go
DragEnd ==
    /\ board.dragging # NoSquare
    /\ board' = dragendHandler([board EXCEPT !.drop = DropKind(board)])
    /\ UNCHANGED << poolVars, moveVars, pgnVars, apiVars, composeVars, aq, le, pi, btn, kb >>
NextBoard == DragStart \/ DragOver \/ DragLeave \/ DragEnd


\* ------------------------------------------------------------ analyzeMove
\* analyzeMove from the point where its three analyses have resolved.
CpTokens == {"-80", "-20", "15", "20", "70"}
InfoLineSamples ==
    { << "info", "depth", "12", "score", "cp", v, "pv", "e2e4" >> : v \in CpTokens }
    \cup { << "info", "depth", "12", "score", "mate", "3", "pv", "e2e4" >>,
           << "info", "depth", "12", "currmove", "e2e4" >> }

\* A Terminal Result as analyzeMove reads it: info is null when the job saw
\* no info line, else the last info line parsed.
NullSnapshot == [hasInfo |-> FALSE, info |-> parseInfoLine(<< "info" >>)]
Snapshots ==
    {NullSnapshot} \cup { [hasInfo |-> TRUE, info |-> parseInfoLine(l)] : l \in InfoLineSamples }

\* blunderThreshold values, in hundredths of a pawn; each is a Number that
\* value / 100 yields exactly (0.25, 0.5).
ThresholdCps == {25, 50}

\* if (!start_fen_result.info || !end_fen_result.info || !best_move_result.info)
InfoMissing(start, end, best) == ~start.hasInfo \/ ~end.hasInfo \/ ~best.hasInfo

\* The test of the score types, operands read from left to right: reading
\* .type of an undefined score throws a TypeError; a type other than 'cp'
\* throws the Error built from the three types (or the TypeError that
\* building it throws).
ScoreCheckStartEnd(start, end, best) ==
    IF end.info.score.type = "undefined" THEN "TypeError"
    ELSE IF end.info.score.type # "cp" THEN "Error"
    ELSE IF start.info.score.type = "undefined" THEN "TypeError"
    ELSE IF start.info.score.type # "cp" THEN "Error"
    ELSE "ok"
ScoreCheck(start, end, best) ==
    IF best.info.score.type = "undefined" THEN "TypeError"
    ELSE IF best.info.score.type # "cp"
         THEN IF start.info.score.type = "undefined" \/ end.info.score.type = "undefined"
              THEN "TypeError" ELSE "Error"
    ELSE IF end.info.score.type = "undefined" THEN "TypeError"
    ELSE IF end.info.score.type # "cp"
         THEN IF start.info.score.type = "undefined" THEN "TypeError" ELSE "Error"
    ELSE IF start.info.score.type = "undefined" THEN "TypeError"
    ELSE IF start.info.score.type # "cp" THEN "Error"
    ELSE "ok"

\* is_blunder = score_diff_norm <= -blunderThreshold
\*              && best_move_score_diff_norm >= -blunderThreshold
is_blunder(start, end, best, threshold, turn) ==
    LET pre_move_score == DivBy100(start.info.score.value)
        post_move_score == DivBy100(end.info.score.value)
        best_move_score == DivBy100(best.info.score.value)
        score_diff == NumSub(post_move_score, pre_move_score)
        best_move_score_diff == NumSub(best_move_score, pre_move_score)
        score_diff_norm == IF turn = "w" THEN score_diff ELSE score_diff
        best_move_score_diff_norm ==
            IF turn = "w" THEN best_move_score_diff ELSE best_move_score_diff
    IN /\ NumLeq(score_diff_norm, Negate(threshold))
       /\ NumGeq(best_move_score_diff_norm, Negate(threshold))

Rejected(err) == [kind |-> "rejected", error |-> err, blunder |-> FALSE]
Returned(b) == [kind |-> "returned", error |-> "none", blunder |-> b]
MovePending == [kind |-> "pending", error |-> "none", blunder |-> FALSE]

analyzeMove(start, end, best, thresholdCp, turn) ==
    IF InfoMissing(start, end, best) THEN Rejected("Error")
    ELSE IF ScoreCheck(start, end, best) # "ok"
         THEN Rejected(ScoreCheck(start, end, best))
    ELSE Returned(is_blunder(start, end, best, DivBy100(thresholdCp), turn))

MoveInit ==
    /\ mvStart \in Snapshots
    /\ mvEnd \in Snapshots
    /\ mvBest \in Snapshots
    /\ mvThreshold \in ThresholdCps
    /\ mvTurn \in {"w", "b"}
    /\ mvOut = MovePending

MoveIdle ==
    /\ mvStart = NullSnapshot
    /\ mvEnd = NullSnapshot
    /\ mvBest = NullSnapshot
    /\ mvThreshold = 50
    /\ mvTurn = "w"
    /\ mvOut = MovePending

AnalyzeMoveSettle ==
    /\ mvOut.kind = "pending"
    /\ mvOut' = analyzeMove(mvStart, mvEnd, mvBest, mvThreshold, mvTurn)
    /\ UNCHANGED << mvStart, mvEnd, mvBest, mvThreshold, mvTurn, poolVars, pgnVars, apiVars,
                    composeVars, uiVars >>

\* ------------------------------------------------------------- analyzePGN
\* analyzePGN after its first loop: one analyzeMove promise per ply is in
\* result_promises.  The promises settle in any order (they are composed of
\* analyses of the pool); the second loop awaits them one by one.
MaxPlies == 3

\* the promise that iteration i (from 1) of the second loop awaits
AwaitedLastFirst(i) == pgnMoves + 1 - i
Awaited(i) == i

PgnInit ==
    /\ pgnMoves \in 1..MaxPlies
    /\ pgnCallback \in BOOLEAN
    /\ pgnPromises = [k \in 1..pgnMoves |-> "pending"]
    /\ pgnPos = 1
    /\ pgnIndex = 0
    /\ pgnResults = << >>
    /\ pgnCalled = << >>
    /\ pgnState = "awaiting"

PgnIdle ==
    /\ pgnMoves = 0
    /\ pgnCallback = FALSE
    /\ pgnPromises = << >>
    /\ pgnPos = 1
    /\ pgnIndex = 0
    /\ pgnResults = << >>
    /\ pgnCalled = << >>
    /\ pgnState = "returned"

\* the analyzeMove promise of ply k resolves
PgnMoveResolves(k) ==
    /\ pgnPromises[k] = "pending"
    /\ pgnPromises' = [pgnPromises EXCEPT ![k] = "resolved"]
    /\ UNCHANGED << pgnMoves, pgnCallback, pgnPos, pgnIndex, pgnResults, pgnCalled,
                    pgnState, poolVars, moveVars, apiVars, composeVars, uiVars >>

\* the analyzeMove promise of ply k rejects
PgnMoveRejects(k) ==
    /\ pgnPromises[k] = "pending"
    /\ pgnPromises' = [pgnPromises EXCEPT ![k] = "rejected"]
    /\ UNCHANGED << pgnMoves, pgnCallback, pgnPos, pgnIndex, pgnResults, pgnCalled,
                    pgnState, poolVars, moveVars, apiVars, composeVars, uiVars >>

\* analysisResult = await resultPromise; results.push(result);
\* onMoveAnalyzed && onMoveAnalyzed(result); then the next iteration, or return
PgnNextResult ==
    /\ pgnState = "awaiting"
    /\ pgnPromises[Awaited(pgnPos)] = "resolved"
    /\ LET result == [ply |-> Awaited(pgnPos), moveIndex |-> pgnIndex]
       IN /\ pgnResults' = Append(pgnResults, result)
          /\ pgnCalled' = IF pgnCallback THEN Append(pgnCalled, result) ELSE pgnCalled
    /\ pgnIndex' = pgnIndex + 1
    /\ pgnPos' = pgnPos + 1
    /\ pgnState' = IF pgnPos = pgnMoves THEN "returned" ELSE "awaiting"
    /\ UNCHANGED << pgnMoves, pgnCallback, pgnPromises, poolVars, moveVars,
                    apiVars, composeVars, uiVars >>

\* the awaited promise is rejected: the await throws, analyzePGN rejects
PgnAwaitThrows ==
    /\ pgnState = "awaiting"
    /\ pgnPromises[Awaited(pgnPos)] = "rejected"
    /\ pgnState' = "rejected"
    /\ UNCHANGED << pgnMoves, pgnCallback, pgnPromises, pgnPos, pgnIndex, pgnResults,
                    pgnCalled, poolVars, moveVars, apiVars, composeVars, uiVars >>

\* ---------------------------------------------------------- specification
\* createStockfishEngine has created the worker and createSlot is at its
\* first post('uci'), awaiting the initial postPromise = Promise.resolve().
PoolInit ==
    /\ cache = [f \in CacheFens |-> [d \in CacheDepths |-> NoEntry]]
    /\ queue = << >>
    /\ jobs = << >>
    /\ busy = FALSE
    /\ current = NoCurrent
    /\ lastAnalyzeInfo = NullInfo
    /\ currentAnalyzeFen = NullFen
    /\ postPromise = 1
    /\ postResolver = 0
    /\ resolved = {1}
    /\ promises = 1
    /\ procs = [p \in {InitProc} \cup JobIds |->
                  IF p = InitProc THEN [pc |-> "uci_pre", waitOn |-> 1] ELSE IdleProc]
    /\ toWorker = << >>
    /\ fromWorker = << >>
    /\ search = 0
    /\ infosSent = 0
    /\ calls = << >>
    /\ stops = 0
    /\ boundLog = << >>
    /\ settleLog = << >>

ApiIdle ==
    /\ apiCount = 0
    /\ readyOut = "none"
    /\ terminated = FALSE
    /\ mvProc = MoveIdleProc
    /\ argLog = << >>
    /\ csMove = ClientMoveIdle
    /\ csCalls = << >>
    /\ cs = ClientInit
    /\ sf = SfInit
    /\ aq = AqInit
    /\ le = LeInit
    /\ btn = ButtonsInit
    /\ kb = KeyboardIdle
    /\ board = BoardIdle

Init == PoolInit /\ MoveIdle /\ PgnIdle /\ ApiIdle /\ ParseIdle

Resume == ResumeCreateSlot \/ \E j \in JobIds : ResumeRunJob(j)
OnMessage == OnUciok \/ OnReadyok \/ OnInfo \/ OnBestmove
AnalyzeCall == \E f \in Fens, d \in DepthInputs : Analyze(f, d)

NextNoStop == Resume \/ OnMessage \/ WorkerSearch \/ AnalyzeCall
Next == NextNoStop \/ WorkerStop \/ Stop

Spec == Init /\ [][Next]_vars
SpecNoStop == Init /\ [][NextNoStop]_vars

\* analyzeMove on every combination of three Terminal Results
InitMove == PoolInit /\ MoveInit /\ PgnIdle /\ ApiIdle /\ ParseIdle
NextMove == AnalyzeMoveSettle
SpecMove == InitMove /\ [][NextMove]_vars

\* analyzePGN on games of 1..MaxPlies plies
PgnNext ==
    \/ \E k \in 1..MaxPlies : k <= pgnMoves /\ PgnMoveResolves(k)
    \/ \E k \in 1..MaxPlies : k <= pgnMoves /\ PgnMoveRejects(k)
    \/ PgnNextResult
    \/ PgnAwaitThrows
InitPGN == PoolInit /\ MoveIdle /\ PgnInit /\ ApiIdle /\ ParseIdle
SpecPGN == InitPGN /\ [][PgnNext]_vars

\* the pool with ready() and terminate() among the calls
NextApi == NextNoStop \/ ReadyCall \/ ReadySettle \/ Terminate
SpecApi == Init /\ [][NextApi]_vars

\* the pool with one analyzeMove call among analyze and stop calls, and one
\* analyzeMove call on the single-worker engine
MoveCallAny ==
    \E f \in Fens, a \in Fens, d \in DepthInputs, m \in {"null", "move"} :
        a # f /\ MoveCall(f, a, d, m)
ClientMoveCallAny == \E f \in Fens, m \in {"null", "move"} : ClientMoveCall(f, m)
NextCompose ==
    \/ Resume \/ OnMessage \/ Worker \/ Stop \/ AnalyzeCall
    \/ MoveCallAny \/ MoveResume \/ ClientMoveCallAny
SpecCompose == Init /\ [][NextCompose]_vars

\* the pool on a channel that joins lines into one message
NextChunk == Next \/ ChannelJoin \/ OnOther
SpecChunk == Init /\ [][NextChunk]_vars

\* the pool without stop(), analyze called for one position with every
\* kind of depth
FirstFen == CHOOSE f \in Fens : \A g \in Fens : f <= g
AnalyzeArgCall == \E a \in DepthArgs : AnalyzeArg(FirstFen, a)
NextDepth == Resume \/ OnMessage \/ WorkerSearch \/ AnalyzeArgCall
SpecDepth == Init /\ [][NextDepth]_vars

\* the pool with stop() and with runJob calls that fail
Fail == \E j \in JobIds : PostThrows(j) \/ RunJobCatch(j)
NextFail == Next \/ Fail
SpecFail == Init /\ [][NextFail]_vars

\* the pool with stop() and setOption calls
SetOptionCall == \E n \in OptionNames : SetOption(n)
NextOption == Next \/ SetOptionCall
SpecOption == Init /\ [][NextOption]_vars

\* the single-worker engine under analyze and stop calls
ClientAnalyzeCall == \E f \in Fens, d \in ClientDepths : ClientAnalyze(f, d)
ClientResumeAny == \E r \in 1..MaxCalls : ClientResume(r)
ClientWorker == ClientWorkerRead \/ ClientWorkerInfo \/ ClientWorkerBestmove
NextClient ==
    \/ ClientAnalyzeCall \/ ClientResumeAny \/ ClientStop
    \/ ClientOnMessage \/ ClientWorker
SpecClient == Init /\ [][NextClient]_vars

\* StockfishEngine under analyzePosition and stop calls
SfAnalyzeCall == \E f \in Fens, d \in SfDepths : SfAnalyzePosition(f, d)
SfWorker == SfWorkerRead \/ SfWorkerInfo \/ SfWorkerBestmove
NextSf ==
    \/ SfAnalyzeCall \/ SfStop \/ SfResumeCall \/ SfTaskStep \/ SfTaskDone
    \/ SfOnMessage \/ SfWorker
SpecSf == Init /\ [][NextSf]_vars

\* AsyncQueue under enqueue and clear calls
AqEnqueueCall == \E k \in TaskKinds : AqEnqueue(k)
NextAq == AqEnqueueCall \/ AqClear \/ AqTaskSettles \/ AqResume
SpecAq == Init /\ [][NextAq]_vars

\* parseInfoLine on every line of the bounded set
KeyboardInit == \E layout \in KeyboardLayouts : kb = KeyboardAt(layout)
InitKeyboard ==
    /\ PoolInit /\ MoveIdle /\ PgnIdle /\ ParseIdle
    /\ apiCount = 0 /\ readyOut = "none" /\ terminated = FALSE
    /\ mvProc = MoveIdleProc /\ argLog = << >>
    /\ csMove = ClientMoveIdle /\ csCalls = << >>
    /\ cs = ClientInit /\ sf = SfInit /\ aq = AqInit /\ le = LeInit
    /\ btn = ButtonsInit /\ board = BoardIdle
    /\ KeyboardInit
BoardInit == \E squares \in BoardPositions : board = BoardWith(squares)
InitBoard ==
    /\ PoolInit /\ MoveIdle /\ PgnIdle /\ ParseIdle
    /\ apiCount = 0 /\ readyOut = "none" /\ terminated = FALSE
    /\ mvProc = MoveIdleProc /\ argLog = << >>
    /\ csMove = ClientMoveIdle /\ csCalls = << >>
    /\ cs = ClientInit /\ sf = SfInit /\ aq = AqInit /\ le = LeInit
    /\ btn = ButtonsInit /\ kb = KeyboardIdle
    /\ BoardInit
InitParse == PoolInit /\ MoveIdle /\ PgnIdle /\ ApiIdle /\ ParseInit
SpecParse == InitParse /\ [][ParseCall]_vars

\* loadEngine under send and stop_moves calls
LeSendCall == \E c \in LeCommands, cb \in BOOLEAN : LeSend(c, cb)
LeWorker == LeWorkerRead \/ LeWorkerInfo \/ LeWorkerBestmove
NextLe == LeSendCall \/ LeStopMoves \/ LeTimer \/ LeOnMessage \/ LeWorker
SpecLe == Init /\ [][NextLe]_vars

\* -------------------------------------------------------------- fairness
\* The event loop runs every ready continuation and handles every delivered
\* message; the engine answers every command and ends every search.
SpecLive ==
    /\ SpecNoStop
    /\ WF_vars(Resume)
    /\ WF_vars(OnMessage)
    /\ WF_vars(WorkerSearch)

\* The same for StockfishEngine: continuations run, messages are handled,
\* the worker reads every command and ends every search.
SpecSfLive ==
    /\ SpecSf
    /\ WF_vars(SfResumeCall)
    /\ WF_vars(SfTaskStep)
    /\ WF_vars(SfTaskDone)
    /\ WF_vars(SfOnMessage)
    /\ WF_vars(SfWorker)

\* ------------------------------------------------------- derived notions
JobKey(j) == << jobs[j].fen, jobs[j].depth >>
InQueue(j) == \E i \in DOMAIN queue : queue[i] = j
Bound(j) == \E i \in DOMAIN boundLog : boundLog[i] = j
\* Job j is on the worker: runJob(j) was started and its promise is pending.
Running(j) == procs[j].pc # "idle" /\ jobs[j].state = "pending"
Settled(j) == j \in DOMAIN jobs /\ jobs[j].state # "pending"

\* What the future returned by an analyze call settles with: the call
\* returns the cache entry, a snapshot or the promise of a job.
CallState(c) ==
    IF c.entry.kind = "result" THEN "resolved" ELSE jobs[c.entry.job].state
CallValue(c) ==
    IF c.entry.kind = "result" THEN c.entry.res ELSE jobs[c.entry.job].value

\* What analyze(fen, d) would return now, when the entry is present.
LookupValue(fen, d) ==
    IF cache[fen][d].kind = "result" THEN cache[fen][d].res
    ELSE IF cache[fen][d].kind = "promise" THEN jobs[cache[fen][d].job].value
    ELSE NoResult

\* ------------------------------------------------------------------ C1
\* C1: two analyze calls with the same key (fen, clamped depth), both made
\* while no result exists for the key, attach to one and the same job (the
\* second call queues nothing), so both futures settle alike; and in every
\* reachable state at most one job per key is queued or running, and no key
\* is bound to the worker twice.
C1_OneSearchPerKey ==
    /\ \A a, b \in DOMAIN calls :
          ( /\ a < b
            /\ calls[a].fen = calls[b].fen
            /\ calls[a].depth = calls[b].depth
            /\ calls[a].noResult
            /\ calls[b].noResult )
          => /\ ~calls[b].fresh
             /\ calls[b].entry = calls[a].entry
             /\ calls[a].entry.kind = "promise"
             /\ CallState(calls[a]) = CallState(calls[b])
             /\ CallValue(calls[a]) = CallValue(calls[b])
    /\ \A i, j \in DOMAIN jobs :
          ( /\ JobKey(i) = JobKey(j)
            /\ InQueue(i) \/ Running(i)
            /\ InQueue(j) \/ Running(j) )
          => i = j
    /\ \A x, y \in DOMAIN boundLog :
          JobKey(boundLog[x]) = JobKey(boundLog[y]) => x = y

\* Two calls for one key, the second made while the first one's search was
\* outstanding, and the search has completed with a Terminal Result.
C1_Witness ==
    \E a, b \in DOMAIN calls :
        /\ a < b
        /\ calls[a].fen = calls[b].fen
        /\ calls[a].depth = calls[b].depth
        /\ calls[a].fresh
        /\ calls[b].noResult
        /\ CallState(calls[b]) = "resolved"
        /\ CallValue(calls[b]).job = calls[a].entry.job

\* ------------------------------------------------------------------ C2
ShortCp(j) ==
    /\ jobs[j].final # NoResult
    /\ jobs[j].final.info.score = "cp"
    /\ jobs[j].final.info.depth < jobs[j].depth

\* C2: a job whose search ended (bestmove handled) with a centipawn score at
\* a depth below the requested one has its future rejected with
\* DepthNotReached, and the cache holds no entry for its key.
C2_ShortSearchRejected ==
    \A j \in DOMAIN jobs :
        ShortCp(j) =>
            /\ jobs[j].state = "rejected"
            /\ jobs[j].error = "DepthNotReached"
            /\ cache[jobs[j].fen][jobs[j].depth] = NoEntry

\* ------------------------------------------------------------------ C3
\* C3: a stop() call made while a request is assigned to the worker (bound
\* by dispatch, its future not settled) rejects that request's future and
\* leaves the worker idle.
C3_StopRejectsAssigned ==
    [][ stops' # stops =>
          /\ \A j \in DOMAIN jobs :
                (Bound(j) /\ jobs[j].state = "pending")
                => (jobs'[j].state = "rejected" /\ jobs'[j].error = "stopped")
          /\ ~busy' ]_vars

\* ------------------------------------------------------------------ C4
\* C4: stop() rejects the future of every request that is in the queue when
\* it is called.
C4_StopRejectsQueued ==
    [][ stops' # stops =>
          \A j \in DOMAIN jobs : InQueue(j) => jobs'[j].state = "rejected" ]_vars

\* ------------------------------------------------------------------ C5
\* C5: without stop(), requests are bound to the single worker in the order
\* they were submitted and their futures settle in that order (job ids
\* count submissions).
C5_FifoOrder ==
    /\ \A i \in DOMAIN boundLog : boundLog[i] = i
    /\ \A i \in DOMAIN settleLog : settleLog[i] = i

\* Three requests with distinct keys were queued and all three have settled.
C5_Witness ==
    /\ Len(jobs) = 3
    /\ Len(settleLog) = 3
    /\ \A i, j \in DOMAIN jobs : JobKey(i) = JobKey(j) => i = j

\* ------------------------------------------------------------------ C6
\* C6: without stop(), with an engine that answers every isready and ends
\* every search, every submitted request is eventually bound to the worker
\* and its future eventually settles.
C6_NoStarvation ==
    \A j \in JobIds :
        (j \in DOMAIN jobs) ~> (Bound(j) /\ Settled(j))

\* A request that had to wait in the queue behind another has been resolved.
C6_Witness ==
    \E j \in DOMAIN jobs :
        /\ j > 1
        /\ jobs[j].state = "resolved"
        /\ jobs[j].final.job = j

\* ------------------------------------------------------------------ C7
ShortMate(j) ==
    /\ jobs[j].final # NoResult
    /\ jobs[j].final.info.score = "mate"
    /\ jobs[j].final.info.depth < jobs[j].depth

\* C7: a job whose search ended with a mate score below the requested depth
\* is resolved with that result, and from then on analyze(fen, d) for the
\* job's key returns that very result.
C7_ShortMateCached ==
    \A j \in DOMAIN jobs :
        ShortMate(j) =>
            /\ jobs[j].state = "resolved"
            /\ jobs[j].value = jobs[j].final
            /\ LookupValue(jobs[j].fen, jobs[j].depth) = jobs[j].final

\* ------------------------------------------------------------------ C8
\* The scores of a returned Move Evaluation, in centipawns.
PreCp == mvStart.info.score.value
PostCp == mvEnd.info.score.value
BestCp == mvBest.info.score.value

\* C8: the blunder flag of a Move Evaluation is true exactly when the played
\* move's delta is at or below minus the threshold and the best move's delta
\* is not below it (deltas and threshold compared exactly, in centipawns).
C8_BlunderIffDeltas ==
    mvOut.kind = "returned" =>
        ( mvOut.blunder <=> ( /\ PostCp - PreCp <= -mvThreshold
                              /\ BestCp - PreCp >= -mvThreshold ) )

\* ------------------------------------------------------------------ C9
CpScored(r) == r.hasInfo /\ r.info.score.type = "cp"

\* C9: when one of the three Terminal Results has no info, no score or a
\* mate score, analyzeMove rejects: it returns no Move Evaluation.
C9_IncompleteRejects ==
    ( /\ mvOut.kind # "pending"
      /\ ~(CpScored(mvStart) /\ CpScored(mvEnd) /\ CpScored(mvBest)) )
    => mvOut.kind = "rejected"

\* analyzeMove has rejected on a best-move result with a mate score, the
\* two other results carrying centipawn scores.
C9_Witness ==
    /\ mvOut.kind = "rejected"
    /\ CpScored(mvStart)
    /\ CpScored(mvEnd)
    /\ mvBest.hasInfo
    /\ mvBest.info.score.type = "mate"

\* ------------------------------------------------------------------ C10
\* C10: whatever order the analyses complete in, the i-th result handed to
\* the callback is that of ply i, carries moveIndex i - 1 and is handed over
\* once; the list of results has the same order; and when analyzePGN
\* returns, every ply has had its callback.
C10_PlyOrder ==
    /\ \A i \in DOMAIN pgnCalled :
          pgnCalled[i].ply = i /\ pgnCalled[i].moveIndex = i - 1
    /\ \A i \in DOMAIN pgnResults :
          pgnResults[i].ply = i /\ pgnResults[i].moveIndex = i - 1
    /\ pgnCallback => pgnCalled = pgnResults
    /\ pgnState = "returned" => Len(pgnResults) = pgnMoves

\* The analysis of the last ply has completed before that of the second,
\* and the callback has been made for the first ply only.
C10_Witness ==
    /\ pgnMoves = MaxPlies
    /\ pgnCallback
    /\ pgnPromises[pgnMoves] = "resolved"
    /\ pgnPromises[2] = "pending"
    /\ Len(pgnCalled) = 1
    /\ pgnCalled[1].ply = 1

\* ------------------------------------------------------------------ C11
\* C11: a ready() call on the initialized pool completes: its promise is
\* never rejected.
C11_ReadyCompletes == readyOut # "rejected"

\* ------------------------------------------------------------------ C12
\* C12: an analyze call made after terminate() queues no request, and its
\* future is rejected with a Terminated error.
C12_TerminatedRejects ==
    \A i \in DOMAIN calls :
        calls[i].terminated =>
            /\ ~calls[i].fresh
            /\ FutureState(i) = "rejected"
            /\ FutureError(i) = "Terminated"

\* ------------------------------------------------------------------ C13
\* The pool's analyzeMove refuses the move in the call itself and submits
\* nothing.
PoolMoveRefused ==
    (mvProc.pc = "idle" /\ mvProc'.pc # "idle" /\ mvProc'.move = "null")
    => /\ mvProc'.pc = "rejected"
       /\ mvProc'.error = "Invalid move"
       /\ queue' = queue
       /\ jobs' = jobs
       /\ cache' = cache
       /\ calls' = calls

\* The single-worker engine's analyzeMove does the same.
ClientMoveRefused ==
    (csMove.pc = "idle" /\ csMove'.pc # "idle" /\ csMove'.move = "null")
    => /\ csMove'.pc = "rejected"
       /\ csMove'.error = "Invalid move"
       /\ csCalls' = csCalls

\* C13: an analyzeMove call whose move the rules engine refuses (chess.move
\* returns null) is rejected with the invalid-move error in the call itself,
\* before any analyze call: the queue, the jobs, the cache and the record of
\* analyze calls stay as they were.
C13_InvalidMoveSubmitsNothing ==
    [][ PoolMoveRefused /\ ClientMoveRefused ]_vars

\* The part of C13 that the pool's analyzeMove (part_001) satisfies.
C13_PoolOnly == [][ PoolMoveRefused ]_vars

\* ------------------------------------------------------------------ C14
\* The analyze calls that the analyzeMove call has made.
MoveCalls == {mvProc.start, mvProc.end, mvProc.best} \ {0}

\* C14: once analyzeMove has failed on a rejected analysis, every analysis
\* it had submitted is settled, and none is queued or running.
C14_SiblingsDrained ==
    (mvProc.pc = "rejected" /\ mvProc.move # "null") =>
        \A i \in MoveCalls :
            /\ FutureState(i) # "pending"
            /\ calls[i].entry.kind = "promise" =>
                   (~InQueue(calls[i].entry.job) /\ ~Running(calls[i].entry.job))

\* ------------------------------------------------------------------ C15
IsLast(ls, i, t) == ls[i].type = t /\ \A k \in DOMAIN ls : k > i => ls[k].type # t
HasLine(ls, t) == \E i \in DOMAIN ls : ls[i].type = t

\* C15: when a message is handled while a request is bound, its lines are
\* handled one by one, in order: a message that contains a bestmove line
\* completes the request, and after a message of several info lines (and no
\* bestmove) the last Progress Record of the request is that of the last of
\* its info lines.
C15_LinesSplit ==
    [][ (fromWorker # << >> /\ fromWorker' = Tail(fromWorker) /\ current.job # 0)
        => LET ls == LinesOf(Head(fromWorker))
           IN /\ HasLine(ls, "bestmove") => jobs'[current.job].state = "resolved"
              /\ (HasLine(ls, "info") /\ ~HasLine(ls, "bestmove"))
                 => \E i \in DOMAIN ls :
                        IsLast(ls, i, "info") /\ lastAnalyzeInfo' = ls[i].info ]_vars

\* ------------------------------------------------------------------ C16
\* C16: no analyze call returns the future of a request that stop() has
\* cancelled (rejected) or dropped (pending, neither queued nor bound): a
\* call for the key of such a request creates a new request.
C16_UsableAfterStop ==
    \A i \in DOMAIN calls : ~calls[i].dead

\* ------------------------------------------------------------------ C17
\* The depth C17 gives for a depth argument: 16 for a non-numeric or zero
\* one, then the bounds 6 and 30.
ClampedDepth(a) ==
    LET n == IF a.kind # "number" \/ a.n = 0 THEN DefaultDepth ELSE a.n
    IN Max(MinDepth, Min(MaxDepth, n))

\* The search an analyze call takes its result from.
CallJob(c) == IF c.entry.kind = "result" THEN c.entry.res.job ELSE c.entry.job

\* C17: the key depth of every analyze call, which is the depth of the
\* search it queues, is its depth argument clamped to [6, 30], 16 standing
\* for a non-numeric or zero argument; and two calls for one fen whose
\* arguments clamp to the same depth take their result from one search, the
\* second queuing nothing.
C17_DepthClamped ==
    /\ \A i \in DOMAIN argLog :
          /\ calls[i].depth = ClampedDepth(argLog[i])
          /\ calls[i].fresh => jobs[calls[i].entry.job].depth = ClampedDepth(argLog[i])
    /\ \A a, b \in DOMAIN argLog :
          ( /\ a < b
            /\ calls[a].fen = calls[b].fen
            /\ ClampedDepth(argLog[a]) = ClampedDepth(argLog[b]) )
          => (~calls[b].fresh /\ CallJob(calls[a]) = CallJob(calls[b]))

\* The first half of C17 for numbers only, and the second half.
C17_NumbersClamped ==
    \A i \in DOMAIN argLog :
        argLog[i].kind # "undefined" => calls[i].depth = ClampedDepth(argLog[i])
C17_SameDepthShares ==
    \A a, b \in DOMAIN argLog :
        ( /\ a < b
          /\ calls[a].fen = calls[b].fen
          /\ calls[a].depth = calls[b].depth )
        => (~calls[b].fresh /\ CallJob(calls[a]) = CallJob(calls[b]))

\* ------------------------------------------------------------------ C18
\* Job j is assigned to the worker: dispatch has bound it and its future is
\* not settled.
Assigned(j) == Bound(j) /\ jobs[j].state = "pending"

\* C18: the worker is busy exactly when a request is assigned to it: it is
\* never idle while a request bound to it is unsettled (busy is cleared
\* only once that request's future is resolved or rejected), and never busy
\* with no request assigned.
C18_BusyIffAssigned ==
    busy <=> \E j \in DOMAIN jobs : Assigned(j)

\* ------------------------------------------------------------------ C19
\* runJob(j) was started and the promise it returns (that of its go
\* command) is not resolved: it is in its handshake or searching.
Unfinished(j) ==
    /\ procs[j].pc # "idle"
    /\ ~(procs[j].pc = "done" /\ procs[j].waitOn \in resolved)

\* C19: at most one request is assigned to the worker, and at most one
\* runJob call is unfinished: dispatch starts none while another is in its
\* handshake or searching.
C19_OneAssigned ==
    /\ Cardinality({ j \in DOMAIN jobs : Assigned(j) }) <= 1
    /\ Cardinality({ j \in DOMAIN jobs : Unfinished(j) }) <= 1

\* ------------------------------------------------------------------ C20
\* The promises of the commands that expect an answer (uci, isready, go)
\* and have none yet; post creates one promise per such command.
Outstanding == (1..promises) \ resolved

\* The worker has read every command and ended its search, and every line
\* it printed has been handled.
AllAnswered == toWorker = << >> /\ fromWorker = << >> /\ search = 0

\* C20: at most one command that expects an answer is outstanding, and
\* once every answer line has arrived and been handled no such command's
\* promise is unresolved (each answer resolved the promise of its own
\* command).
C20_OneOutstanding ==
    /\ Cardinality(Outstanding) <= 1
    /\ AllAnswered => Outstanding = {}

\* ------------------------------------------------------------------ C21
\* The place of a command in runJob, and how far runJob(j) has got.
CmdRank(c) ==
    CASE c = "ucinewgame" -> 1
      [] c = "isready" -> 2
      [] c = "position" -> 3
      [] c = "go" -> 4
      [] OTHER -> 0
PcRank(pc) ==
    CASE pc \in {"newgame_ret", "isready_pre"} -> 1
      [] pc = "isready_ack" -> 2
      [] pc \in {"position_ret", "go_pre"} -> 3
      [] pc = "done" -> 4
      [] OTHER -> 0

\* The isready of runJob(j) or the readyok that answers it is on its way.
ReadyokDue(j) ==
    \/ \E x \in DOMAIN toWorker : toWorker[x].cmd = "isready" /\ toWorker[x].job = j
    \/ \E x \in DOMAIN fromWorker :
           \E k \in DOMAIN LinesOf(fromWorker[x]) :
               LET l == LinesOf(fromWorker[x])[k]
               IN l.type = "readyok" /\ l.of = j

\* The commands of every job are on their way to the worker in the order
\* ucinewgame, isready, position, go; a job that has sent position has had
\* the readyok of its own isready; the current job has sent position.
CommandsOrdered ==
    /\ \A x, y \in DOMAIN toWorker :
          (x < y /\ toWorker[x].job # 0 /\ toWorker[x].job = toWorker[y].job)
          => CmdRank(toWorker[x].cmd) < CmdRank(toWorker[y].cmd)
    /\ \A x \in DOMAIN toWorker :
          toWorker[x].job # 0 =>
              CmdRank(toWorker[x].cmd) <= PcRank(procs[toWorker[x].job].pc)
OwnReadyok == \A j \in DOMAIN jobs : PcRank(procs[j].pc) >= 3 => ~ReadyokDue(j)
CurrentAfterPosition == current.job # 0 => PcRank(procs[current.job].pc) >= 3
RunJobOrdered == CommandsOrdered /\ OwnReadyok /\ CurrentAfterPosition

\* An analyze call whose dispatch starts runJob(j) while another job is
\* current: that job is rejected and stop is posted right before the
\* ucinewgame of j.
PreviousStopped ==
    \A j \in JobIds :
        (calls' # calls /\ current.job # 0 /\ procs[j].pc = "idle" /\ procs'[j].pc # "idle")
        => /\ jobs'[current.job].state = "rejected"
           /\ \E x \in DOMAIN toWorker' :
                  /\ x > 1
                  /\ toWorker'[x] = JobCmd("ucinewgame", 0, j)
                  /\ toWorker'[x - 1].cmd = "stop"

\* C21: runJob sends ucinewgame, isready, position, go in this order for
\* each job, position only after the readyok that answers the job's own
\* isready was received, makes the job current only after position was
\* sent, and stops and rejects a job that is still current before it sends
\* ucinewgame.
C21_RunJobOrder ==
    [][ RunJobOrdered' /\ PreviousStopped ]_vars

\* The parts of C21 other than the readyok of the job's own isready.
C21_ExceptReadyok ==
    [][ CommandsOrdered' /\ CurrentAfterPosition' /\ PreviousStopped ]_vars

C23_AuthoritativeInfo ==
    [][ \A j \in DOMAIN jobs :
          (jobs[j].final = NoResult /\ jobs'[j].final # NoResult)
          => /\ current.job = j
             /\ jobs'[j].final.info = current.lastInfo
             /\ jobs'[j].final.info # NullInfo => jobs'[j].final.info.multipv = 1 ]_vars

\* ------------------------------------------------------------------ C24
\* C24: the step that completes job j writes its Terminal Result to the
\* cache under (fen, depth) of job j and changes no other cache entry.
C24_CacheWriteKey ==
    [][ \A j \in DOMAIN jobs :
          (jobs[j].final = NoResult /\ jobs'[j].final # NoResult)
          => /\ cache'[jobs[j].fen][jobs[j].depth] = ResultEntry(jobs'[j].final)
             /\ \A f \in CacheFens, d \in CacheDepths :
                   << f, d >> # JobKey(j) => cache'[f][d] = cache[f][d] ]_vars

\* ------------------------------------------------------------------ C25
\* Result v was produced by the search started for request r.
FromSearchOf(v, r) ==
    /\ v.bestmove = r
    /\ v.info # CsNullInfo => v.info.req = r

\* C25: a request whose analyze call pre-empted the running search of an
\* earlier request is resolved (and cached under its fen) only with the
\* bestmove line and the info of the search started for it, never with
\* those of the stopped search.
C25_OwnBestmove ==
    \A r \in DOMAIN cs.reqs :
        (cs.reqs[r].state = "resolved" /\ cs.reqs[r].preempted # 0)
        => /\ FromSearchOf(cs.reqs[r].value, r)
           /\ cs.reqs[r].value.fen = cs.reqs[r].fen

\* ------------------------------------------------------------------ C26
\* C26: when an analyze call pre-empts the search of an earlier request,
\* stop is posted and the earlier request's future is rejected.
C26_PreemptedRejected ==
    [][ \A r \in DOMAIN cs'.reqs :
          (r \notin DOMAIN cs.reqs /\ cs.current # 0 /\ cs'.reqs[r].pc # "hit")
          => /\ cs'.toWorker = Append(cs.toWorker, JobCmd("stop", 0, 0))
             /\ cs'.reqs[cs.current].state = "rejected" ]_vars

\* ------------------------------------------------------------------ C27
\* C27: an analyze call answered from the cache gets the result of a
\* finished search for the same fen and the same clamped depth.
C27_CacheHitSameKey ==
    \A r \in DOMAIN cs.reqs :
        cs.reqs[r].pc = "hit" =>
            LET by == cs.reqs[r].value.bestmove
            IN /\ cs.reqs[by].fen = cs.reqs[r].fen
               /\ ClientGoDepth(cs.reqs[by].depth) = ClientGoDepth(cs.reqs[r].depth)

\* C28: StockfishEngine.analyzePosition: when the bestmove line of a job's
\* search is handled and the job's latest info is neither at the requested
\* depth nor a mate score (or there is no info), the job's promise, shared
\* by all callers attached to the key, is rejected and the cache entry of
\* the key is cleared; otherwise the promise resolves with the latest info
\* and the entry stays.  A resolved job stays in the cache, a rejected one
\* is not in it, and a call that finds the key cleared makes a new job,
\* stores it under the key and enqueues its task.
SfSettledAt(j) == sf.jobs[j].state = "pending" /\ sf'.jobs[j].state # "pending"
SfEntryMatches ==
    \A j \in DOMAIN sf.jobs :
        /\ sf.jobs[j].state = "resolved" => sf.analyzeCache[sf.jobs[j].key] = j
        /\ sf.jobs[j].state = "rejected" => sf.analyzeCache[sf.jobs[j].key] # j
SfCallOnCleared ==
    /\ sf.ready
    /\ sf.calls # << >>
    /\ Head(sf.calls).op = "analyze"
    /\ sf.analyzeCache[Head(sf.calls).key] = 0
    /\ sf'.calls = Tail(sf.calls)
C28_DepthNotReached ==
    [][ /\ \A j \in DOMAIN sf.jobs :
             SfSettledAt(j) =>
                LET info == sf.jobs[j].latestInfo
                    k == sf.jobs[j].key
                IN IF info.depth = k[2] \/ info.type = "mate"
                   THEN /\ sf'.jobs[j].state = "resolved"
                        /\ sf'.jobs[j].value = info
                        /\ sf'.analyzeCache[k] = j
                   ELSE /\ sf'.jobs[j].state = "rejected"
                        /\ sf'.analyzeCache[k] = 0
        /\ SfEntryMatches'
        /\ SfCallOnCleared =>
             LET n == Len(sf.jobs) + 1
             IN /\ Len(sf'.jobs) = n
                /\ sf'.jobs[n].key = Head(sf.calls).key
                /\ sf'.analyzeCache[Head(sf.calls).key] = n
                /\ sf'.jobs[n].task = "running" \/ sf'.queue[Len(sf'.queue)] = n
      ]_vars
\* a job shared by two callers was rejected, and a later call with the same
\* key made a new job
C28_Witness ==
    \E j, n \in DOMAIN sf.jobs :
        /\ j < n
        /\ sf.jobs[j].state = "rejected"
        /\ sf.jobs[j].callers >= 2
        /\ sf.jobs[n].key = sf.jobs[j].key
        /\ sf.analyzeCache[sf.jobs[n].key] = n

\* C29: StockfishEngine: the promise of every job made by analyzePosition
\* eventually settles, also when the job's task was waiting in the
\* AsyncQueue while stop() cleared it.
C29_EverySettles ==
    \A j \in 1..MaxCalls :
        (j \in DOMAIN sf.jobs) ~>
            (j \in DOMAIN sf.jobs /\ sf.jobs[j].state # "pending")
\* C29, its parts as safety: a job whose task the queue rejected has a
\* rejected promise, and is no longer handed out under its key
C29_ClearedRejected ==
    \A j \in DOMAIN sf.jobs :
        sf.jobs[j].task = "cleared" =>
            /\ sf.jobs[j].state = "rejected"
            /\ sf.analyzeCache[sf.jobs[j].key] # j

\* ------------------------------------------------------------------ C30
\* the analyzeMove call submits: analyze calls are added to the record
MoveSubmits(n) == Len(calls') = Len(calls) + n

\* C30: analyzeMove of the pool submits the analyses of the position before
\* the move and of the position after the played move in one step, before
\* its first await; it submits the analysis of the position after the best
\* move only in the step that follows the settled start analysis, when that
\* analysis is resolved, and reads the best move from the result it resolved
\* with; it gets past its three awaits only when all three analyses are
\* resolved.
C30_SubmissionOrder ==
    [][ /\ (mvProc.pc = "idle" /\ mvProc'.pc = "await_start") =>
              /\ MoveSubmits(2)
              /\ mvProc'.start = Len(calls) + 1
              /\ mvProc'.end = Len(calls) + 2
              /\ mvProc'.best = 0
        /\ (mvProc.best = 0 /\ mvProc'.best # 0) =>
              /\ mvProc.pc = "await_start"
              /\ FutureState(mvProc.start) = "resolved"
              /\ FutureValue(mvProc.start) # NoResult
              /\ mvProc'.bestFrom = FutureValue(mvProc.start).job
              /\ MoveSubmits(1)
              /\ mvProc'.best = Len(calls) + 1
        /\ mvProc'.pc = "validate" =>
              \A i \in {mvProc'.start, mvProc'.end, mvProc'.best} :
                  i # 0 /\ FutureState(i)' = "resolved"
      ]_vars
\* analyzeMove is past its three awaits: its first two analyses were jobs of
\* their own, and the third was built from the start result
C30_Witness ==
    /\ mvProc.pc = "validate"
    /\ mvProc.bestFrom # 0
    /\ mvProc.best > mvProc.end
    /\ calls[mvProc.start].fresh
    /\ calls[mvProc.end].fresh

\* ------------------------------------------------------------------ C31
\* C31: a setOption call of the pool leaves the slot's busy flag and the
\* request queue as they were (so that a request submitted afterwards on an
\* idle pool is dispatched).
C31_SetOptionFrame ==
    [][ apiCount' # apiCount => (busy' = busy /\ queue' = queue) ]_vars
\* what follows from it: a request is never left in the queue while no job
\* is on the worker
C31_QueuedIsServed ==
    queue # << >> => \E j \in DOMAIN jobs : Running(j)

\* ------------------------------------------------------------------ C32
AqExecuting == { t \in DOMAIN aq.tasks : aq.tasks[t].fn = "running" }
AqWaiting(t) == \E i \in DOMAIN aq.queue : aq.queue[i] = t

\* C32: AsyncQueue starts its tasks in the order they were enqueued, one at
\* a time: at most one task's function is executing, and a task is started
\* only when the promise of the task started before it is settled.  A
\* task's promise is rejected only when its own function threw or rejected
\* (or the task was cleared), and while tasks wait the loop is awaiting a
\* task: a throwing task does not stall the ones behind it.
C32_SerialFifo ==
    /\ \A i, k \in DOMAIN aq.started : i < k => aq.started[i] < aq.started[k]
    /\ Cardinality(AqExecuting) <= 1
    /\ \A i \in DOMAIN aq.started :
          i > 1 => aq.tasks[aq.started[i - 1]].promise # "pending"
    /\ \A t \in DOMAIN aq.tasks :
          /\ aq.tasks[t].promise = "rejected" =>
                (aq.tasks[t].cleared \/ aq.tasks[t].fn \in {"thrown", "rejected"})
          /\ aq.tasks[t].promise = "resolved" => aq.tasks[t].fn = "resolved"
          /\ AqWaiting(t) => aq.tasks[t].fn = "waiting" /\ t > aq.cur
    /\ aq.queue # << >> => (aq.running /\ aq.cur # 0)
\* three tasks were started in the order of their enqueue calls: the first
\* rejected, the second threw, the third resolved
C32_Witness ==
    /\ aq.started = << 1, 2, 3 >>
    /\ aq.clears = << >>
    /\ aq.tasks[1].kind = "rejects" /\ aq.tasks[1].promise = "rejected"
    /\ aq.tasks[2].kind = "throws" /\ aq.tasks[2].promise = "rejected"
    /\ aq.tasks[3].kind = "ok" /\ aq.tasks[3].promise = "resolved"

\* ------------------------------------------------------------------ C33
AqClearCompletes(c) == aq.clears[c] = "pending" /\ aq'.clears[c] = "resolved"

\* C33: AsyncQueue.clear: a task that waited in the queue when clear() was
\* called is rejected without its function being invoked; the running task
\* goes on and settles by its own outcome; the promise of a clear() called
\* while the queue runs resolves only when the queue has drained, that of a
\* clear() on an idle queue at once; when a clear completes, clearRequested
\* is false, and a task is rejected uninvoked only if a clear was requested
\* when it was enqueued or was called while it waited.
C33_Clear ==
    [][ /\ \A t \in DOMAIN aq'.tasks :
             /\ (aq'.tasks[t].exposed /\ ~AqWaiting(t)') =>
                   (aq'.tasks[t].cleared /\ aq'.tasks[t].fn = "waiting"
                      /\ aq'.tasks[t].promise = "rejected")
             /\ aq'.tasks[t].cleared => aq'.tasks[t].exposed
        /\ (aq.cur # 0 /\ Len(aq'.clears) > Len(aq.clears)) =>
              (aq'.cur = aq.cur /\ aq'.tasks[aq.cur] = aq.tasks[aq.cur])
        /\ \A c \in DOMAIN aq.clears :
              AqClearCompletes(c) =>
                 (aq'.queue = << >> /\ ~aq'.running /\ ~aq'.clearRequested
                    /\ \A t \in DOMAIN aq'.tasks : aq'.tasks[t].promise # "pending")
        /\ (~aq.running /\ Len(aq'.clears) > Len(aq.clears)) =>
              (aq'.clears[Len(aq'.clears)] = "resolved" /\ ~aq'.clearRequested)
      ]_vars
\* a clear() called while a task ran has completed: the task that waited
\* was rejected uninvoked, the running one resolved, and a task enqueued
\* afterwards has run
C33_Witness ==
    /\ Len(aq.tasks) = 3
    /\ aq.clears = << "resolved" >>
    /\ aq.tasks[1].fn = "resolved" /\ aq.tasks[1].promise = "resolved"
    /\ aq.tasks[2].cleared /\ aq.tasks[2].fn = "waiting"
    /\ ~aq.tasks[3].exposed /\ aq.tasks[3].promise = "resolved"

\* ------------------------------------------------------------------ C34
\* the commands of the worker protocol that always print a reply, and the
\* line that ends the reply
LeReplying == {"uci", "isready", "go"}
LeTerminator(cmd) ==
    CASE cmd = "uci" -> "uciok" [] cmd = "isready" -> "readyok" [] OTHER -> "bestmove"
LeInQue(st, id) == \E i \in DOMAIN st.que : st.que[i] = id
LeLeaves(id) == LeInQue(le, id) /\ ~LeInQue(le', id)

\* C34: loadEngine queues exactly the commands that always print a reply;
\* a queued command leaves the queue only when the line that ends its reply
\* is handled, it is then the oldest queued command of its type, and its
\* callback is invoked in that step, once, unless it has none or is marked
\* discard; no callback of a queued command is invoked at any other time,
\* and the callback of a go command marked by stop_moves is never invoked.
C34_CommandQueue ==
    [][ \A id \in DOMAIN le'.sends :
          LET c == le'.sends[id]
          IN /\ c.queued <=> c.cmd \in LeReplying
             /\ LeInQue(le', id) => (c.queued /\ c.called = 0)
             /\ c.queued => c.called <= 1
             /\ (c.queued /\ c.discard) => c.called = 0
             /\ (id \in DOMAIN le.sends /\ c.queued
                   /\ c.called # le.sends[id].called) => LeLeaves(id)
             /\ (id \in DOMAIN le.sends /\ LeLeaves(id)) =>
                   /\ c.line = LeTerminator(c.cmd)
                   /\ c.called = IF c.cb /\ ~c.discard THEN 1 ELSE 0
                   /\ \A k \in DOMAIN le.sends :
                         (LeInQue(le, k) /\ le.sends[k].cmd = c.cmd /\ k < id)
                            => LeLeaves(k)
      ]_vars
\* two go commands were queued behind an isready; stop_moves marked the
\* first, whose bestmove line did not invoke its callback, and the second
\* one's callback was invoked on its own bestmove line
C34_Witness ==
    \E g, h \in DOMAIN le.sends :
        /\ g < h
        /\ le.sends[g].cmd = "go" /\ le.sends[h].cmd = "go"
        /\ le.sends[g].cb /\ le.sends[g].discard
        /\ le.sends[g].line = "bestmove" /\ le.sends[g].called = 0
        /\ le.sends[h].cb /\ le.sends[h].called = 1
        /\ le.sends[h].line = "bestmove"

\* ------------------------------------------------------------------ C35
\* the first place of key in the line, 0 when absent
FirstAt(l, key) ==
    IF \A i \in DOMAIN l : l[i] # key THEN 0
    ELSE CHOOSE i \in DOMAIN l : l[i] = key /\ \A k \in 1..(i - 1) : l[k] # key
\* the token n places after the first key, "" when there is none
After(l, key, n) ==
    IF FirstAt(l, key) > 0 /\ FirstAt(l, key) + n <= Len(l)
    THEN l[FirstAt(l, key) + n] ELSE ""
Finite(t) == t \in {"12", "0x10"}
ValueOf(t) == IF t = "12" THEN 12 ELSE 16
FieldIs(v, l, key) ==
    IF Finite(After(l, key, 1)) THEN v = Num(ValueOf(After(l, key, 1)))
    ELSE v = Undefined

\* C35: parseInfoLine returns a record for every line: a numeric field is
\* the number after the first occurrence of its key, undefined when the key
\* is absent or the token after it is not a finite number; multipv is 1
\* instead of undefined; score is {cp, n} or {mate, n} exactly when the
\* token after 'score' is cp or mate and the one after that a finite number
\* n, and unset otherwise; pv is the tokens after 'pv', none when absent.
C35_ParseInfoLine ==
    pi.returned =>
        LET l == pi.tokens
            o == pi.out
        IN /\ FieldIs(o.depth, l, "depth")
           /\ FieldIs(o.seldepth, l, "seldepth")
           /\ FieldIs(o.nodes, l, "nodes")
           /\ FieldIs(o.nps, l, "nps")
           /\ FieldIs(o.time, l, "time")
           /\ IF Finite(After(l, "multipv", 1))
              THEN o.multipv = Num(ValueOf(After(l, "multipv", 1)))
              ELSE o.multipv = Num(1)
           /\ IF After(l, "score", 1) \in {"cp", "mate"} /\ Finite(After(l, "score", 2))
              THEN o.score = [type |-> After(l, "score", 1),
                              value |-> ValueOf(After(l, "score", 2))]
              ELSE o.score = NoScore
           /\ o.pv = IF FirstAt(l, "pv") = 0 THEN << >>
                     ELSE SubSeq(l, FirstAt(l, "pv") + 1, Len(l))
\* a line with a hexadecimal depth and a score whose value is not finite
C35_Witness ==
    /\ pi.returned
    /\ pi.tokens = << "depth", "0x10", "score", "Infinity" >>
    /\ pi.out.depth = Num(16)
    /\ pi.out.score = NoScore
    /\ pi.out.multipv = Num(1)

SpecButtons == Init /\ [][NextButtons]_vars

\* ------------------------------------------------------------------ C36
ButtonOf(c) == getButtonIndexFromKey(KeyName(c))
MappedKeys == { c \in PressKeys : ButtonOf(c) # NullIndex }
\* this step called handler h during the press of key c
Called(c, h) ==
    /\ btn'.invoked[c] # << >>
    /\ btn'.invoked[c] # btn.invoked[c]
    /\ btn'.invoked[c][Len(btn'.invoked[c])] = h
\* this step is the event of the given type for key (or button) c
IsEvent(type, c) == btn'.last.type = type /\ btn'.last.keyCode = c

\* the press of key c as this step leaves it
PressAsStated(c) ==
    /\ Len(btn'.invoked[c]) <= 1
    /\ Called(c, "long") <=>
          /\ IsEvent("timer", ButtonOf(c))
          /\ c \in btn.held
          /\ btn.fns[ButtonOf(c)].long
    /\ Called(c, "short") <=>
          /\ IsEvent("keyup", c)
          /\ btn.timers[ButtonOf(c)]
          /\ btn.fns[ButtonOf(c)].short
    /\ (IsEvent("keydown", c) /\ (btn'.last.repeat \/ btn.down[ButtonOf(c)]))
          => btn'.timers = btn.timers
    /\ IsEvent("keyup", c)
          => ~btn'.down[ButtonOf(c)] /\ ~btn'.timers[ButtonOf(c)]

\* C36: during one press of a mapped key, from its keydown to its keyup, at
\* most one handler of its button is called; long is called exactly by the
\* timer firing while the key is held, short exactly by the key's keyup
\* while the timer is pending (each when the handler is defined); a keydown
\* that repeats or finds the button down leaves the timers alone; after a
\* keyup the button is up and has no pending timer.
C36_LongPress == [][ \A c \in MappedKeys : PressAsStated(c) ]_vars
\* the same for the steps before and after which no two keys of one button
\* are held
C36_OneKeyAtATime ==
    [][ (\A c, d \in btn.held \cup btn'.held : ButtonOf(c) = ButtonOf(d) => c = d)
            => \A c \in MappedKeys : PressAsStated(c) ]_vars
\* one press of a key with both handlers called during it
C36_TwoHandlers ==
    \E c \in MappedKeys : btn.invoked[c] = << "short", "long" >>

\* ------------------------------------------------------------------ C37
SpecKeyboard == InitKeyboard /\ [][NextKeyboard]_vars

\* C37: in each of the three layouts, from row 0 and column 0 and after any
\* sequence of the four moves, every move has returned and the selection
\* is a row and a column of the layout whose key is not empty.
C37_SelectionOnKey ==
    /\ kb.returned
    /\ kb.row \in 0..(Len(kb.layout) - 1)
    /\ kb.col \in 0..(RowLength(kb.layout, kb.row) - 1)
    /\ keyboardGetSelectedKey(kb) \notin {"", "undefined"}
\* a move down from the last column met the empty last key of the bottom
\* row and went left to DONE
C37_Witness ==
    /\ kb.layout = keyboardLayoutNormal
    /\ kb.move = "down" /\ kb.calls = 2
    /\ kb.row = 4 /\ kb.col = 8
    /\ keyboardGetSelectedKey(kb) = "DONE"

\* ------------------------------------------------------------------ C38
SpecBoard == InitBoard /\ [][NextBoard]_vars
\* the colors the 64 squares display
DisplayedColors ==
    [s \in Squares |-> IF board.squares[s] = "" THEN "null"
                       ELSE getPieceColor(board.squares[s])]
\* the pieces of a position, with how many of each
PieceBag(squares) ==
    [p \in Pieces |-> Cardinality({ s \in Squares : squares[s] = p })]
GestureDone == board.drags > 0 /\ board.dragging = NoSquare

\* C38: after a completed drag gesture, however it ended, the colors of the
\* last SquarePieceStateChangeEvent are the colors the 64 squares display,
\* no square that shows a piece is reported empty, and a drop within the
\* board left the pieces of the board what they were at the dragstart.
C38_DragDrop ==
    GestureDone =>
        /\ board.sent.colors = DisplayedColors
        /\ \A s \in Squares : board.squares[s] # "" => board.sent.colors[s] # "null"
        /\ PieceBag(board.squares) = PieceBag(board.before)
\* the same for the gestures that did not end on an occupied square
C38_NotOnOccupied ==
    (GestureDone /\ board.drop # "occupied") =>
        /\ board.sent.colors = DisplayedColors
        /\ PieceBag(board.squares) = PieceBag(board.before)
\* a piece dropped on an occupied square is back on its square, which the
\* last event reports empty
C38_ReportedEmpty ==
    /\ GestureDone /\ board.drop = "occupied"
    /\ board.squares = board.before
    /\ \E s \in Squares : board.squares[s] # "" /\ board.sent.colors[s] = "null"

====
